---- MODULE Spec2Model ----
(***************************************************************************)
(* Pattern-defeating quicksort (third_party/rust/pdqsort/src/lib.rs) as a  *)
(* state machine.  The slice is the variable v, the Rust call stack is the *)
(* variable stack (one record per active function, with its locals and the *)
(* label it resumes at), and every call of the user's comparator is a      *)
(* request (req) answered by the action Compare, or by ComparePanic when   *)
(* the comparator panics.  One action per function of the source: it runs  *)
(* the function's code from the label it stands at up to the next call     *)
(* (of the comparator or of another function) or to its return.            *)
(***************************************************************************)
EXTENDS Integers, Sequences, FiniteSets, Bags, TLC

VARIABLES
    v,          \* the slice being sorted, a function 0..n-1 -> element
    stack,      \* active calls, innermost last
    req,        \* the comparator call in flight (after a panic: the call that
                \* panicked): [x, y] (references), or None
    ord,        \* the Ordering the comparator returned last
    ret,        \* the value the last returning function returned
    status,     \* "running", "done", "panicked" (comparator panic unwound), "fault"
    calls,      \* comparator calls made by the current sort_by call
    entered,    \* names of the functions entered by the current sort_by call
    cmpKind,    \* which comparator the caller passed
    rng,        \* the comparator's own state (test_crazy_compare's rng)
    eltSize,    \* mem::size_of::<T>()
    input,      \* the slice as the caller handed it to the current call
    round,      \* how many calls the caller has made
    prev,       \* what the caller's previous call was given and what it left
    entry,      \* the function the caller called
    keyCalls,   \* calls of the key function f made by the current call
    trace,      \* digest of the comparisons made, in order, by the current call
    arg         \* the index the caller passed besides the slice (0 if none)

vars == <<v, stack, req, ord, ret, status, calls, entered, cmpKind, rng,
          eltSize, input, round, prev, entry, keyCalls, trace, arg>>

-----------------------------------------------------------------------------
(* Program constants *)

BLOCK == 64
MAX_INSERTIONS == 4
MIN_MEDIAN_OF_MEDIANS == 256
\* mem::size_of::<usize>() of the 64-bit targets the crate's u64 tests run on
WordSize == 8

(* Bounds of the model *)

\* every slice over 0..MaxVal of length 0..SmallLen is an input
SmallLen == 4
MaxVal == 2
\* seeds of the generated inputs and of the random comparator
MaxSeed == 1
\* calls of sort_by the caller makes on one slice
MaxRounds == 2

-----------------------------------------------------------------------------
(* Values shared by the functions *)

None == [none |-> TRUE]
\* what a function hands back: (), a bool, a usize or a (usize, bool)
Pair(n, b) == [idx |-> n, bool |-> b]
Idx(n) == Pair(n, FALSE)
Bool(b) == Pair(0, b)
Unit == Pair(0, FALSE)
\* a reference to the temporary of insert_head, and what an index out of its
\* slice yields
TmpRef == -1
OutOfBounds == -2
NoPred == -3

Min(a, b) == IF a <= b THEN a ELSE b
Abs(a) == IF a < 0 THEN -a ELSE a

Get(arr, k) == IF k \in DOMAIN arr THEN arr[k] ELSE 0
Put(arr, k, x) == IF k \in DOMAIN arr THEN [arr EXCEPT ![k] = x] ELSE arr
Swap(arr, i, j) ==
    IF i \in DOMAIN arr /\ j \in DOMAIN arr
    THEN [arr EXCEPT ![i] = arr[j], ![j] = arr[i]]
    ELSE arr

\* a reverse that copies the second half over the first and leaves the second
ReverseCopies(arr, base, len) ==
    [k \in DOMAIN arr |->
        IF base <= k /\ k < base + len \div 2
        THEN arr[base + (base + len - 1 - k)]
        ELSE arr[k]]

\* slice::reverse on v[base .. base+len]
Reverse(arr, base, len) ==
    [k \in DOMAIN arr |->
        IF base <= k /\ k < base + len THEN arr[base + (base + len - 1 - k)]
        ELSE arr[k]]

\* the elements of arr as a bag
BagOf(arr) ==
    LET vals == {arr[k] : k \in DOMAIN arr}
    IN [x \in vals |-> Cardinality({k \in DOMAIN arr : arr[k] = x})]

\* index i lies in the slice of frame f
InB(f, i) == 0 <= i /\ i < f.len
\* the element reference &v[i] of frame f's slice
At(f, i) == IF InB(f, i) THEN f.base + i ELSE OutOfBounds

\* a step that has computed the function's locals f and the slice arr goes on
\* at Op: both are evaluated once, here, however often Op reads them
Then(f, arr, Op(_, _)) == CHOOSE res \in {Op(g, a) : g \in {f}, a \in {arr}} : TRUE

Top == stack[Len(stack)]
Rest == SubSeq(stack, 1, Len(stack) - 1)

(* What a function's step ends with *)
RCmp(f, arr, x, y) ==
    IF x = OutOfBounds \/ y = OutOfBounds
    THEN [kind |-> "fault", why |-> "index"]
    ELSE [kind |-> "cmp", f |-> f, v |-> arr, x |-> x, y |-> y]
RCall(f, arr, g) ==
    IF g.base < f.base \/ g.len < 0 \/ g.base + g.len > f.base + f.len
    THEN [kind |-> "fault", why |-> "slice"]
    ELSE [kind |-> "call", f |-> f, v |-> arr, g |-> g]
RRet(arr, val) == [kind |-> "ret", v |-> arr, val |-> val]
\* the function goes on at the label f.pc, by a step of its own
RStep(f, arr) == [kind |-> "step", f |-> f, v |-> arr]
RFault(why) == [kind |-> "fault", why |-> why]

-----------------------------------------------------------------------------
(* The comparators a caller passes *)

Three(a, b) == IF a < b THEN "Less" ELSE IF a > b THEN "Greater" ELSE "Equal"

\* |a, b| a.cmp(b) and |a, b| b.cmp(a): total orders of the elements
TotalKinds == {"nat", "rev"}
\* |a, b| f(a).cmp(&f(b)) with f = abs, and the same with a and b exchanged:
\* total orders of the keys, under which distinct elements compare Equal
KeyKinds == {"key", "keyrev"}
OrderKinds == TotalKinds \cup KeyKinds
\* comparators that are no order at all: constant answers, a cycle
\* 0 < 1 < 2 < 0 on the residues mod 3, and answers drawn from a random number
\* generator whatever the arguments: Less or Greater (test_crazy_compare),
\* any of the three, and Greater seven times out of eight
RandomKinds == {"random", "random3", "skewed"}
CrazyKinds == {"less", "greater", "equal", "cycle", "first"} \cup RandomKinds
\* a comparator that answers every call with any Ordering
AnyKinds == {"any"}
CmpKinds == OrderKinds \cup CrazyKinds \cup AnyKinds

RngNext(s) == (s * 75 + 74) % 65537
RngBool(s) == (s \div 16) % 2 = 1

\* the Ordering comparator kind k returns for elements a and b in state s
CompareFn(k, s, a, b) ==
    CASE k = "nat" -> Three(a, b)
      [] k = "rev" -> Three(b, a)
      [] k = "key" -> Three(Abs(a), Abs(b))
      [] k = "keyrev" -> Three(Abs(b), Abs(a))
      [] k = "less" -> "Less"
      [] k = "greater" -> "Greater"
      [] k = "equal" -> "Equal"
      [] k = "cycle" -> IF a % 3 = b % 3 THEN "Equal"
                        ELSE IF (a + 1) % 3 = b % 3 THEN "Less" ELSE "Greater"
      [] k = "first" -> <<"Less", "Equal", "Greater">>[(a % 3) + 1]
      [] k = "random" -> IF RngBool(s) THEN "Less" ELSE "Greater"
      [] k = "random3" -> <<"Less", "Equal", "Greater">>[((s \div 16) % 3) + 1]
      [] k = "skewed" -> IF (s \div 16) % 8 = 0 THEN "Less" ELSE "Greater"

\* the Orderings a call of comparator kind k may return
CompareSet(k, s, a, b) ==
    IF k \in AnyKinds THEN {"Less", "Equal", "Greater"}
    ELSE {CompareFn(k, s, a, b)}

\* the comparator with its arguments exchanged
Reversed(k) ==
    CASE k = "nat" -> "rev"
      [] k = "rev" -> "nat"
      [] k = "key" -> "keyrev"
      [] k = "keyrev" -> "key"
      [] OTHER -> k

-----------------------------------------------------------------------------
(* insert_head *)

InsertHeadFrame(base, len) ==
    [fn |-> "insert_head", pc |-> "entry", base |-> base, len |-> len,
     i |-> 0, tmp |-> 0, dest |-> 0]

\* InsertionHole::drop: copies *src into *dest
HoleDrop(arr, dest, tmp) == Put(arr, dest, tmp)

\* the loop stopping one element early
InsertHeadLoopShort(f, arr) ==
    IF f.i < f.len - 1
    THEN RCmp([f EXCEPT !.pc = "shift"], arr, TmpRef, At(f, f.i))
    ELSE RRet(HoleDrop(arr, f.base + f.dest, f.tmp), Bool(TRUE))

\* the head of `for i in 2..v.len()`
InsertHeadLoop(f, arr) ==
    IF f.i < f.len
    THEN RCmp([f EXCEPT !.pc = "shift"], arr, TmpRef, At(f, f.i))
    ELSE RRet(HoleDrop(arr, f.base + f.dest, f.tmp), Bool(TRUE))

\* insert_head shifting past the elements that compare Equal with tmp
InsertHeadStepPastEqual(f, arr, o) ==
    CASE f.pc = "entry" ->
            IF f.len >= 2
            THEN RCmp([f EXCEPT !.pc = "first"], arr, At(f, 0), At(f, 1))
            ELSE RRet(arr, Bool(FALSE))
      [] f.pc = "first" ->
            IF o = "Greater"
            THEN Then(
                    [f EXCEPT !.tmp = Get(arr, f.base), !.dest = 1, !.i = 2],
                    Put(arr, f.base, Get(arr, f.base + 1)), InsertHeadLoop)
            ELSE RRet(arr, Bool(FALSE))
      [] f.pc = "shift" ->
            IF o = "Less"
            THEN RRet(HoleDrop(arr, f.base + f.dest, f.tmp), Bool(TRUE))
            ELSE Then(
                    [f EXCEPT !.dest = f.i, !.i = f.i + 1],
                    Put(arr, f.base + f.i - 1, Get(arr, f.base + f.i)), InsertHeadLoop)

\* insert_head without `hole.dest = &mut v[i]`
InsertHeadStepStaleDest(f, arr, o) ==
    CASE f.pc = "entry" ->
            IF f.len >= 2
            THEN RCmp([f EXCEPT !.pc = "first"], arr, At(f, 0), At(f, 1))
            ELSE RRet(arr, Bool(FALSE))
      [] f.pc = "first" ->
            IF o = "Greater"
            THEN Then(
                    [f EXCEPT !.tmp = Get(arr, f.base), !.dest = 1, !.i = 2],
                    Put(arr, f.base, Get(arr, f.base + 1)), InsertHeadLoop)
            ELSE RRet(arr, Bool(FALSE))
      [] f.pc = "shift" ->
            IF o # "Greater"
            THEN RRet(HoleDrop(arr, f.base + f.dest, f.tmp), Bool(TRUE))
            ELSE Then(
                    [f EXCEPT !.i = f.i + 1],
                    Put(arr, f.base + f.i - 1, Get(arr, f.base + f.i)), InsertHeadLoop)

InsertHeadStep(f, arr, o) ==
    CASE f.pc = "entry" ->
            IF f.len >= 2
            THEN RCmp([f EXCEPT !.pc = "first"], arr, At(f, 0), At(f, 1))
            ELSE RRet(arr, Bool(FALSE))
      [] f.pc = "first" ->
            IF o = "Greater"
            THEN Then(
                    [f EXCEPT !.tmp = Get(arr, f.base), !.dest = 1, !.i = 2],
                    Put(arr, f.base, Get(arr, f.base + 1)), InsertHeadLoop)
            ELSE RRet(arr, Bool(FALSE))
      [] f.pc = "shift" ->
            IF o # "Greater"
            THEN RRet(HoleDrop(arr, f.base + f.dest, f.tmp), Bool(TRUE))
            ELSE Then(
                    [f EXCEPT !.dest = f.i, !.i = f.i + 1],
                    Put(arr, f.base + f.i - 1, Get(arr, f.base + f.i)), InsertHeadLoop)

(* insertion_sort *)

InsertionSortFrame(base, len) ==
    [fn |-> "insertion_sort", pc |-> "entry", base |-> base, len |-> len, i |-> 0]

InsertionSortStep(f, arr) ==
    CASE f.pc = "entry" ->
            IF f.len >= 2
            THEN RCall([f EXCEPT !.pc = "loop", !.i = f.len - 2], arr,
                       InsertHeadFrame(f.base + f.len - 2, 2))
            ELSE RRet(arr, Unit)
      [] f.pc = "loop" ->
            IF f.i > 0
            THEN RCall([f EXCEPT !.i = f.i - 1], arr,
                       InsertHeadFrame(f.base + f.i - 1, f.len - (f.i - 1)))
            ELSE RRet(arr, Unit)

(* partial_insertion_sort *)

PartialInsertionSortFrame(base, len) ==
    [fn |-> "partial_insertion_sort", pc |-> "entry", base |-> base,
     len |-> len, i |-> 0, insertions |-> 0]

\* partial_insertion_sort giving up on the insertion that reaches the maximum
PartialInsertionSortStepEarly(f, arr, rv) ==
    CASE f.pc = "entry" ->
            IF f.len >= 2
            THEN RCall([f EXCEPT !.pc = "loop", !.i = f.len - 2], arr,
                       InsertHeadFrame(f.base + f.len - 2, 2))
            ELSE RRet(arr, Bool(TRUE))
      [] f.pc = "loop" ->
            LET ins == IF rv.bool THEN f.insertions + 1 ELSE f.insertions
            IN  IF rv.bool /\ ins >= MAX_INSERTIONS THEN RRet(arr, Bool(FALSE))
                ELSE IF f.i > 0
                THEN RCall([f EXCEPT !.i = f.i - 1, !.insertions = ins], arr,
                           InsertHeadFrame(f.base + f.i - 1, f.len - (f.i - 1)))
                ELSE RRet(arr, Bool(TRUE))

PartialInsertionSortStep(f, arr, rv) ==
    CASE f.pc = "entry" ->
            IF f.len >= 2
            THEN RCall([f EXCEPT !.pc = "loop", !.i = f.len - 2], arr,
                       InsertHeadFrame(f.base + f.len - 2, 2))
            ELSE RRet(arr, Bool(TRUE))
      [] f.pc = "loop" ->
            LET ins == IF rv.bool THEN f.insertions + 1 ELSE f.insertions
            IN  IF rv.bool /\ ins > MAX_INSERTIONS THEN RRet(arr, Bool(FALSE))
                ELSE IF f.i > 0
                THEN RCall([f EXCEPT !.i = f.i - 1, !.insertions = ins], arr,
                           InsertHeadFrame(f.base + f.i - 1, f.len - (f.i - 1)))
                ELSE RRet(arr, Bool(TRUE))

-----------------------------------------------------------------------------
(* heapsort and its closure sift_down *)

SiftDownFrame(base, len, x) ==
    [fn |-> "sift_down", pc |-> "entry", base |-> base, len |-> len,
     x |-> x, child |-> 0]

\* `if child >= v.len() || compare(&v[x], &v[child]) != Less`
SiftParent(f, arr) ==
    IF f.child >= f.len THEN RRet(arr, Unit)
    ELSE RCmp([f EXCEPT !.pc = "parent"], arr, At(f, f.x), At(f, f.child))

\* a sift_down that takes the left child without looking at the right one
SiftLoopLeftChild(f, arr) ==
    Then([f EXCEPT !.child = 2 * f.x + 1], arr, SiftParent)

\* the head of sift_down's loop
SiftLoop(f, arr) ==
    IF 2 * f.x + 2 < f.len
    THEN RCmp([f EXCEPT !.pc = "child"], arr,
              At(f, 2 * f.x + 1), At(f, 2 * f.x + 2))
    ELSE Then([f EXCEPT !.child = 2 * f.x + 1], arr, SiftParent)

SiftDownStep(f, arr, o) ==
    CASE f.pc = "entry" -> SiftLoop(f, arr)
      [] f.pc = "child" ->
            Then([f EXCEPT !.child = IF o = "Less" THEN 2 * f.x + 2
                                           ELSE 2 * f.x + 1], arr, SiftParent)
      [] f.pc = "parent" ->
            IF o # "Less" THEN RRet(arr, Unit)
            ELSE Then([f EXCEPT !.x = f.child],
                          Swap(arr, f.base + f.x, f.base + f.child), SiftLoop)

HeapsortFrame(base, len) ==
    [fn |-> "heapsort", pc |-> "entry", base |-> base, len |-> len, i |-> 0]

\* one turn of `for i in (1 .. v.len()).rev()`
HeapPop(f, arr, i) ==
    IF i >= 1
    THEN RCall([f EXCEPT !.pc = "pop", !.i = i],
               Swap(arr, f.base, f.base + i), SiftDownFrame(f.base, i, 0))
    ELSE RRet(arr, Unit)

HeapsortStep(f, arr) ==
    CASE f.pc = "entry" ->
            IF f.len \div 2 > 0
            THEN RCall([f EXCEPT !.pc = "build", !.i = f.len \div 2 - 1], arr,
                       SiftDownFrame(f.base, f.len, f.len \div 2 - 1))
            ELSE HeapPop(f, arr, f.len - 1)
      [] f.pc = "build" ->
            IF f.i > 0
            THEN RCall([f EXCEPT !.i = f.i - 1], arr,
                       SiftDownFrame(f.base, f.len, f.i - 1))
            ELSE HeapPop(f, arr, f.len - 1)
      [] f.pc = "pop" -> HeapPop(f, arr, f.i - 1)

-----------------------------------------------------------------------------
(* is_presorted *)

IsPresortedFrame(base, len) ==
    [fn |-> "is_presorted", pc |-> "entry", base |-> base, len |-> len,
     i |-> 0, desc |-> FALSE]

\* the descending scan never returning false
PresortedViolationLax(desc, o) == IF desc THEN FALSE ELSE o = "Greater"
\* the ascending scan returning false on an Equal pair too
PresortedViolationStrict(desc, o) == IF desc THEN o = "Less" ELSE o # "Less"

\* the adjacent pair that ends the scan with `return false`
PresortedViolation(desc, o) == IF desc THEN o = "Less" ELSE o = "Greater"

\* the scans leaving out the last adjacent pair
IsPresortedLoopShort(f, arr) ==
    IF f.i < f.len - 1
    THEN RCmp([f EXCEPT !.pc = "scan"], arr, At(f, f.i - 1), At(f, f.i))
    ELSE RRet(IF f.desc THEN Reverse(arr, f.base, f.len) ELSE arr, Bool(TRUE))

\* the scans returning true without `v.reverse()`
IsPresortedLoopNoReverse(f, arr) ==
    IF f.i < f.len
    THEN RCmp([f EXCEPT !.pc = "scan"], arr, At(f, f.i - 1), At(f, f.i))
    ELSE RRet(arr, Bool(TRUE))

IsPresortedLoop(f, arr) ==
    IF f.i < f.len
    THEN RCmp([f EXCEPT !.pc = "scan"], arr, At(f, f.i - 1), At(f, f.i))
    ELSE RRet(IF f.desc THEN Reverse(arr, f.base, f.len) ELSE arr, Bool(TRUE))

\* is_presorted comparing v[0] and v[1] in a slice of one element
IsPresortedStepLen1(f, arr, o) ==
    CASE f.pc = "entry" ->
            IF f.len >= 1
            THEN RCmp([f EXCEPT !.pc = "first"], arr, At(f, 0), At(f, 1))
            ELSE RRet(arr, Bool(TRUE))
      [] f.pc = "first" ->
            Then([f EXCEPT !.desc = (o = "Greater"), !.i = 2], arr, IsPresortedLoop)
      [] f.pc = "scan" ->
            IF PresortedViolation(f.desc, o) THEN RRet(arr, Bool(FALSE))
            ELSE Then([f EXCEPT !.i = f.i + 1], arr, IsPresortedLoop)

\* is_presorted taking the descending branch when v[0] and v[1] are Equal
IsPresortedStepDescOnEqual(f, arr, o) ==
    CASE f.pc = "entry" ->
            IF f.len >= 2
            THEN RCmp([f EXCEPT !.pc = "first"], arr, At(f, 0), At(f, 1))
            ELSE RRet(arr, Bool(TRUE))
      [] f.pc = "first" ->
            Then([f EXCEPT !.desc = (o # "Less"), !.i = 2], arr, IsPresortedLoop)
      [] f.pc = "scan" ->
            IF PresortedViolation(f.desc, o) THEN RRet(arr, Bool(FALSE))
            ELSE Then([f EXCEPT !.i = f.i + 1], arr, IsPresortedLoop)

IsPresortedStep(f, arr, o) ==
    CASE f.pc = "entry" ->
            IF f.len >= 2
            THEN RCmp([f EXCEPT !.pc = "first"], arr, At(f, 0), At(f, 1))
            ELSE RRet(arr, Bool(TRUE))
      [] f.pc = "first" ->
            Then([f EXCEPT !.desc = (o = "Greater"), !.i = 2], arr, IsPresortedLoop)
      [] f.pc = "scan" ->
            IF PresortedViolation(f.desc, o) THEN RRet(arr, Bool(FALSE))
            ELSE Then([f EXCEPT !.i = f.i + 1], arr, IsPresortedLoop)

-----------------------------------------------------------------------------
(* partition_in_blocks *)

PartitionInBlocksFrame(base, len, pivot) ==
    [fn |-> "partition_in_blocks", pc |-> "entry", base |-> base, len |-> len,
     pivot |-> pivot, is_done |-> FALSE, i |-> 0,
     l |-> 0, len_l |-> 0, start_l |-> 0, block_l |-> BLOCK,
     offsets_l |-> [k \in 0 .. BLOCK - 1 |-> 0],
     r |-> len, len_r |-> 0, start_r |-> 0, block_r |-> BLOCK,
     offsets_r |-> [k \in 0 .. BLOCK - 1 |-> 0]]

\* `i as u8`
AsU8(i) == i % 256

\* the final loops: what is left of one side's offsets is swapped against the
\* other bound, one turn of the loop a step
PibDrainL(f, arr) ==
    IF f.start_l < f.len_l
    THEN LET n == f.len_l - 1
         IN  IF n >= BLOCK \/ f.r - 1 < 0 THEN RFault("index")
             ELSE IF ~InB(f, f.l + f.offsets_l[n]) \/ ~InB(f, f.r - 1)
             THEN RFault("index")
             ELSE RStep([f EXCEPT !.pc = "drain_l", !.len_l = n, !.r = f.r - 1],
                        Swap(arr, f.base + f.l + f.offsets_l[n],
                             f.base + f.r - 1))
    ELSE RRet(arr, Idx(f.r))

\* the last loop moving l without the swap
PibDrainRNoSwap(f, arr) ==
    IF f.start_r < f.len_r
    THEN RStep([f EXCEPT !.pc = "drain_r", !.len_r = f.len_r - 1,
                         !.l = f.l + 1], arr)
    ELSE RRet(arr, Idx(f.l))

PibDrainR(f, arr) ==
    IF f.start_r < f.len_r
    THEN LET n == f.len_r - 1
         IN  IF n >= BLOCK THEN RFault("index")
             ELSE IF ~InB(f, f.l) \/ ~InB(f, f.r - f.offsets_r[n] - 1)
             THEN RFault("index")
             ELSE RStep([f EXCEPT !.pc = "drain_r", !.len_r = n, !.l = f.l + 1],
                        Swap(arr, f.base + f.l,
                             f.base + f.r - f.offsets_r[n] - 1))
    ELSE RRet(arr, Idx(f.l))

\* `if start_l < len_l { .. } else { .. }` after the loop
PibFinish(f, arr) ==
    IF f.start_l < f.len_l
    THEN RStep([f EXCEPT !.pc = "drain_l"], arr)
    ELSE RStep([f EXCEPT !.pc = "drain_r"], arr)

\* the swap step leaving every displaced element where it is
PibSwapNone(f, arr, j, k) == arr

\* the swaps between the left and the right side: k pairs, from pair j on
RECURSIVE PibSwapAll(_, _, _, _)
PibSwapAll(f, arr, j, k) ==
    IF j >= k THEN arr
    ELSE LET swapped == Swap(arr, f.base + f.l + f.offsets_l[f.start_l + j],
                             f.base + f.r - f.offsets_r[f.start_r + j] - 1)
         IN  CHOOSE res \in {PibSwapAll(f, a, j + 1, k) : a \in {swapped}} : TRUE

PibSwapsOk(f, k) ==
    \A j \in 0 .. k - 1 :
        /\ f.start_l + j < BLOCK
        /\ f.start_r + j < BLOCK
        /\ InB(f, f.l + f.offsets_l[f.start_l + j])
        /\ InB(f, f.r - f.offsets_r[f.start_r + j] - 1)

\* the last round's block sizes computed without the pending block taken off
PibBlocksNoPending(f) ==
    LET done == f.r - f.l <= 2 * BLOCK
        rem == f.r - f.l
    IN  IF ~done THEN f
        ELSE IF f.start_l < f.len_l
        THEN [f EXCEPT !.is_done = TRUE, !.block_r = rem]
        ELSE IF f.start_r < f.len_r
        THEN [f EXCEPT !.is_done = TRUE, !.block_l = rem]
        ELSE [f EXCEPT !.is_done = TRUE, !.block_l = rem \div 2,
                       !.block_r = rem - rem \div 2]

\* `is_done = r - l <= 2 * BLOCK` and the block sizes of the last round
PibBlocks(f) ==
    LET done == f.r - f.l <= 2 * BLOCK
        pending == f.start_l < f.len_l \/ f.start_r < f.len_r
        rem == f.r - f.l - (IF pending THEN BLOCK ELSE 0)
    IN  IF ~done THEN f
        ELSE IF f.start_l < f.len_l
        THEN [f EXCEPT !.is_done = TRUE, !.block_r = rem]
        ELSE IF f.start_r < f.len_r
        THEN [f EXCEPT !.is_done = TRUE, !.block_l = rem]
        ELSE [f EXCEPT !.is_done = TRUE, !.block_l = rem \div 2,
                       !.block_r = rem - rem \div 2]

\* the swaps, and the bounds moved past an exhausted block; the loop is then
\* at its head again
PibSwaps(f, arr) ==
    LET k == Min(f.len_l - f.start_l, f.len_r - f.start_r)
        sl == f.start_l + k
        sr == f.start_r + k
        g == [f EXCEPT !.start_l = sl, !.start_r = sr,
                       !.l = IF sl = f.len_l THEN f.l + f.block_l ELSE f.l,
                       !.r = IF sr = f.len_r THEN f.r - f.block_r ELSE f.r]
    IN  IF ~PibSwapsOk(f, k) THEN RFault("index")
        ELSE IF g.r < 0 THEN RFault("underflow")
        ELSE RStep([g EXCEPT !.pc = "while"], PibSwapAll(f, arr, 0, k))

\* both blocks are traced: the swaps are next
PibTraced(f, arr) == RStep([f EXCEPT !.pc = "swaps"], arr)

\* `for i in 0..block_r`, tracing from the right
PibScanR(f, arr) ==
    IF f.i < f.block_r
    THEN IF f.r - f.i - 1 < 0 THEN RFault("underflow")
         ELSE RCmp([f EXCEPT !.pc = "scan_r"], arr,
                   At(f, f.r - f.i - 1), f.pivot)
    ELSE PibTraced(f, arr)

PibTraceR(f, arr) ==
    IF f.start_r = f.len_r
    THEN Then([f EXCEPT !.start_r = 0, !.len_r = 0, !.i = 0], arr, PibScanR)
    ELSE PibTraced(f, arr)

\* the left trace going one element beyond its block
PibScanLOneMore(f, arr) ==
    IF f.i <= f.block_l
    THEN RCmp([f EXCEPT !.pc = "scan_l"], arr, At(f, f.l + f.i), f.pivot)
    ELSE PibTraceR(f, arr)

\* `for i in 0..block_l`, tracing from the left
PibScanL(f, arr) ==
    IF f.i < f.block_l
    THEN RCmp([f EXCEPT !.pc = "scan_l"], arr, At(f, f.l + f.i), f.pivot)
    ELSE PibTraceR(f, arr)

PibTraceL(f, arr) ==
    IF f.start_l = f.len_l
    THEN Then([f EXCEPT !.start_l = 0, !.len_l = 0, !.i = 0], arr, PibScanL)
    ELSE PibTraceR(f, arr)

\* the head of `while !is_done`
PibWhile(f, arr) ==
    IF f.is_done THEN PibFinish(f, arr)
    ELSE IF f.r - f.l < 0 THEN RFault("underflow")
    ELSE LET g == PibBlocks(f)
         IN  IF g.block_l < 0 \/ g.block_r < 0 THEN RFault("underflow")
             ELSE IF g.block_l > BLOCK \/ g.block_r > BLOCK
             THEN RFault("debug_assert")
             ELSE PibTraceL(g, arr)

PartitionInBlocksStep(f, arr, o) ==
    CASE f.pc \in {"entry", "while"} -> PibWhile(f, arr)
      [] f.pc = "swaps" -> PibSwaps(f, arr)
      [] f.pc = "drain_l" -> PibDrainL(f, arr)
      [] f.pc = "drain_r" -> PibDrainR(f, arr)
      [] f.pc = "scan_l" ->
            IF f.len_l >= BLOCK THEN RFault("index")
            ELSE Then(
                    [f EXCEPT !.offsets_l[f.len_l] = AsU8(f.i),
                              !.len_l = f.len_l + (IF o # "Less" THEN 1 ELSE 0),
                              !.i = f.i + 1], arr, PibScanL)
      [] f.pc = "scan_r" ->
            IF f.len_r >= BLOCK THEN RFault("index")
            ELSE Then(
                    [f EXCEPT !.offsets_r[f.len_r] = AsU8(f.i),
                              !.len_r = f.len_r + (IF o = "Less" THEN 1 ELSE 0),
                              !.i = f.i + 1], arr, PibScanR)

-----------------------------------------------------------------------------
(* partition *)

\* v is the slice with the pivot at 0; l and r index v[1..]
PartitionFrame(base, len, pivot) ==
    [fn |-> "partition", pc |-> "entry", base |-> base, len |-> len,
     pivot |-> pivot, l |-> 0, r |-> 0]

\* &v[i] of the inner slice v[1..]
AtTail(f, i) == IF 0 <= i /\ i < f.len - 1 THEN f.base + 1 + i ELSE OutOfBounds

PartitionBlocks(f, arr) ==
    IF f.l > f.r THEN RFault("slice")
    ELSE RCall([f EXCEPT !.pc = "blocks"], arr,
               PartitionInBlocksFrame(f.base + 1 + f.l, f.r - f.l, f.base))

PartitionScanR(f, arr) ==
    IF f.l < f.r
    THEN RCmp([f EXCEPT !.pc = "scan_r"], arr, AtTail(f, f.r - 1), f.base)
    ELSE PartitionBlocks(f, arr)

PartitionScanL(f, arr) ==
    IF f.l < f.r
    THEN RCmp([f EXCEPT !.pc = "scan_l"], arr, AtTail(f, f.l), f.base)
    ELSE PartitionScanR(f, arr)

\* `while l < r && compare(&v[l], &*pivot) == Less { l += 1; }`, the
\* comparator having answered o
PartitionOnScanL(f, arr, o) ==
    IF o = "Less" THEN Then([f EXCEPT !.l = f.l + 1], arr, PartitionScanL)
    ELSE PartitionScanR(f, arr)

\* the scan from the right stopping at an element Equal to the pivot
PartitionOnScanRStrict(f, arr, o) ==
    IF o = "Greater" THEN Then([f EXCEPT !.r = f.r - 1], arr, PartitionScanR)
    ELSE PartitionBlocks(f, arr)

\* `while l < r && compare(&v[r - 1], &*pivot) != Less { r -= 1; }`
PartitionOnScanR(f, arr, o) ==
    IF o # "Less" THEN Then([f EXCEPT !.r = f.r - 1], arr, PartitionScanR)
    ELSE PartitionBlocks(f, arr)

\* partition without the last `v.swap(0, mid)`
PartitionStepPivotLeft(f, arr, o, rv) ==
    CASE f.pc = "entry" ->
            IF ~InB(f, 0) \/ ~InB(f, f.pivot) THEN RFault("index")
            ELSE Then([f EXCEPT !.l = 0, !.r = f.len - 1],
                                Swap(arr, f.base, f.base + f.pivot), PartitionScanL)
      [] f.pc = "scan_l" -> PartitionOnScanL(f, arr, o)
      [] f.pc = "scan_r" -> PartitionOnScanR(f, arr, o)
      [] f.pc = "blocks" ->
            LET mid == f.l + rv.idx
            IN  IF ~InB(f, mid) THEN RFault("index")
                ELSE RRet(arr, Pair(mid, f.l >= f.r))

PartitionStep(f, arr, o, rv) ==
    CASE f.pc = "entry" ->
            IF ~InB(f, 0) \/ ~InB(f, f.pivot) THEN RFault("index")
            ELSE Then([f EXCEPT !.l = 0, !.r = f.len - 1],
                                Swap(arr, f.base, f.base + f.pivot), PartitionScanL)
      [] f.pc = "scan_l" -> PartitionOnScanL(f, arr, o)
      [] f.pc = "scan_r" -> PartitionOnScanR(f, arr, o)
      [] f.pc = "blocks" ->
            LET mid == f.l + rv.idx
            IN  IF ~InB(f, mid) THEN RFault("index")
                ELSE RRet(Swap(arr, f.base, f.base + mid), Pair(mid, f.l >= f.r))

(* partition_equal *)

PartitionEqualFrame(base, len, mid) ==
    [fn |-> "partition_equal", pc |-> "entry", base |-> base, len |-> len,
     mid |-> mid, l |-> 0, r |-> 0]

RECURSIVE PeqWhile(_, _)

\* `if l < r { r -= 1; v.swap(l, r); l += 1; }`
PeqSwap(f, arr) ==
    IF f.l < f.r
    THEN IF AtTail(f, f.l) = OutOfBounds \/ AtTail(f, f.r - 1) = OutOfBounds
         THEN RFault("index")
         ELSE Then([f EXCEPT !.r = f.r - 1, !.l = f.l + 1],
                       Swap(arr, f.base + 1 + f.l, f.base + 1 + f.r - 1), PeqWhile)
    ELSE PeqWhile(f, arr)

PeqScanR(f, arr) ==
    IF f.l < f.r
    THEN RCmp([f EXCEPT !.pc = "scan_r"], arr, AtTail(f, f.r - 1), f.base)
    ELSE PeqSwap(f, arr)

PeqScanL(f, arr) ==
    IF f.l < f.r
    THEN RCmp([f EXCEPT !.pc = "scan_l"], arr, AtTail(f, f.l), f.base)
    ELSE PeqScanR(f, arr)

\* the loop returning l, the pivot at index 0 not counted
PeqWhileNoPivot(f, arr) ==
    IF f.l < f.r THEN PeqScanL(f, arr) ELSE RRet(arr, Idx(f.l))

\* the head of the outer `while l < r`
PeqWhile(f, arr) ==
    IF f.l < f.r THEN PeqScanL(f, arr) ELSE RRet(arr, Idx(f.l + 1))

PartitionEqualStep(f, arr, o) ==
    CASE f.pc = "entry" ->
            IF ~InB(f, 0) \/ ~InB(f, f.mid) THEN RFault("index")
            ELSE Then([f EXCEPT !.l = 0, !.r = f.len - 1],
                          Swap(arr, f.base, f.base + f.mid), PeqWhile)
      [] f.pc = "scan_l" ->
            IF o = "Equal" THEN Then([f EXCEPT !.l = f.l + 1], arr, PeqScanL)
            ELSE PeqScanR(f, arr)
      [] f.pc = "scan_r" ->
            IF o = "Greater" THEN Then([f EXCEPT !.r = f.r - 1], arr, PeqScanR)
            ELSE PeqSwap(f, arr)

-----------------------------------------------------------------------------
(* break_patterns *)

\* the pairs break_patterns swaps in a slice of length len, in order
BreakPairs(len) ==
    IF len >= 4
    THEN <<<<0, len \div 2>>, <<len - 1, len - len \div 2>>>> \o
         (IF len >= 8
          THEN <<<<1, len \div 2 + 1>>, <<2, len \div 2 + 2>>,
                 <<len - 2, len - len \div 2 - 1>>,
                 <<len - 3, len - len \div 2 - 2>>>>
          ELSE <<>>)
    ELSE <<>>

RECURSIVE SwapPairs(_, _, _)
SwapPairs(arr, base, pairs) ==
    IF pairs = <<>> THEN arr
    ELSE LET swapped == Swap(arr, base + pairs[1][1], base + pairs[1][2])
         IN  CHOOSE res \in {SwapPairs(a, base, Tail(pairs)) : a \in {swapped}} :
                TRUE

BreakPatterns(arr, base, len) == SwapPairs(arr, base, BreakPairs(len))

BreakPatternsOk(len) ==
    \A k \in DOMAIN BreakPairs(len) :
        /\ 0 <= BreakPairs(len)[k][1] /\ BreakPairs(len)[k][1] < len
        /\ 0 <= BreakPairs(len)[k][2] /\ BreakPairs(len)[k][2] < len

-----------------------------------------------------------------------------
(* choose_pivot *)

\* sort3 without its last sort2
Sort3Short(a, b, c) == <<<<a, b>>, <<b, c>>>>

\* `sort3(a, b, c)`: the sort2 calls it makes
Sort3(a, b, c) == <<<<a, b>>, <<b, c>>, <<a, b>>>>

\* the sort2 calls choose_pivot makes on a slice of length len, in order
PivotPairs(len) ==
    LET a == (len \div 4) * 1
        b == (len \div 4) * 2
        c == (len \div 4) * 3
    IN  IF len >= 4
        THEN (IF len >= MIN_MEDIAN_OF_MEDIANS
              THEN Sort3(a - 1, a, c + 1) \o Sort3(b - 1, b, b + 1) \o
                   Sort3(c - 1, c, c + 1)
              ELSE <<>>) \o Sort3(a, b, c)
        ELSE <<>>

\* the middle of the slice
PivotIndexHalf(len) == len \div 2

\* the index choose_pivot returns
PivotIndex(len) == (len \div 4) * 2

ChoosePivotFrame(base, len) ==
    [fn |-> "choose_pivot", pc |-> "entry", base |-> base, len |-> len,
     todo |-> PivotPairs(len)]

ChoosePivotLoop(f, arr) ==
    IF f.todo = <<>> THEN RRet(arr, Idx(PivotIndex(f.len)))
    ELSE RCmp([f EXCEPT !.pc = "sort2"], arr,
              At(f, f.todo[1][1]), At(f, f.todo[1][2]))

ChoosePivotStep(f, arr, o) ==
    CASE f.pc = "entry" -> ChoosePivotLoop(f, arr)
      [] f.pc = "sort2" ->
            Then(
                [f EXCEPT !.todo = Tail(f.todo)],
                IF o = "Greater"
                THEN Swap(arr, f.base + f.todo[1][1], f.base + f.todo[1][2])
                ELSE arr, ChoosePivotLoop)

-----------------------------------------------------------------------------
(* quicksort *)

QuicksortFrame(base, len, pred, limit) ==
    [fn |-> "quicksort", pc |-> "entry", base |-> base, len |-> len,
     pred |-> pred, limit |-> limit, mid |-> 0]

\* `if mem::size_of::<T>() <= 2 * mem::size_of::<usize>() { 32 } else { 16 }`
MaxInsertion(size) == IF size <= 2 * WordSize THEN 32 ELSE 16

\* both parts shorter than an eighth of the slice
ImbalancedBoth(leftLen, rightLen, len) ==
    leftLen < len \div 8 /\ rightLen < len \div 8

\* `left.len() < len / 8 || right.len() < len / 8`
Imbalanced(leftLen, rightLen, len) ==
    leftLen < len \div 8 \/ rightLen < len \div 8

\* the left part sorted with the pivot as its predecessor
QuicksortLeftAfterPivot(f, arr) ==
    RCall([f EXCEPT !.pc = "left"], arr,
          QuicksortFrame(f.base, f.mid, f.base + f.mid, f.limit))

\* `quicksort(left, compare, pred, limit)`, with f.mid the pivot's index
QuicksortLeft(f, arr) ==
    RCall([f EXCEPT !.pc = "left"], arr,
          QuicksortFrame(f.base, f.mid, f.pred, f.limit))

\* the right part taken from the pivot on, not from behind it
QuicksortRightFromPivot(f, arr) ==
    RCall([f EXCEPT !.pc = "tail"], arr,
          QuicksortFrame(f.base + f.mid, f.len - f.mid, f.base + f.mid, f.limit))

\* `quicksort(right, compare, Some(pivot), limit)`
QuicksortRight(f, arr) ==
    RCall([f EXCEPT !.pc = "tail"], arr,
          QuicksortFrame(f.base + f.mid + 1, f.len - f.mid - 1,
                         f.base + f.mid, f.limit))

QuicksortPartition(f, arr) ==
    RCall([f EXCEPT !.pc = "partitioned"], arr,
          PartitionFrame(f.base, f.len, f.mid))

\* from `let (left, right) = v.split_at_mut(mid)` to the first call after it
QuicksortSplit(f, arr, mid, was_partitioned) ==
    LET leftLen == mid
        rightLen == f.len - mid - 1
        g == [f EXCEPT !.mid = mid]
    IN  IF mid < 0 \/ mid > f.len \/ f.len - mid < 1 THEN RFault("split")
        ELSE IF Imbalanced(leftLen, rightLen, f.len)
        THEN IF f.limit - 1 < 0 THEN RFault("underflow")
             ELSE IF ~BreakPatternsOk(leftLen) \/ ~BreakPatternsOk(rightLen)
             THEN RFault("index")
             ELSE Then(
                    [g EXCEPT !.limit = f.limit - 1],
                    BreakPatterns(BreakPatterns(arr, f.base, leftLen),
                                  f.base + mid + 1, rightLen), QuicksortLeft)
        ELSE IF was_partitioned
        THEN RCall([g EXCEPT !.pc = "pis_left"], arr,
                   PartialInsertionSortFrame(f.base, leftLen))
        ELSE QuicksortLeft(g, arr)

QuicksortStep(f, arr, o, rv, size) ==
    CASE f.pc = "entry" ->
            IF f.len <= MaxInsertion(size)
            THEN RCall([f EXCEPT !.pc = "tail"], arr,
                       InsertionSortFrame(f.base, f.len))
            ELSE IF f.limit = 0
            THEN RCall([f EXCEPT !.pc = "tail"], arr,
                       HeapsortFrame(f.base, f.len))
            ELSE RCall([f EXCEPT !.pc = "pivot"], arr,
                       ChoosePivotFrame(f.base, f.len))
      [] f.pc = "pivot" ->
            IF f.pred # NoPred
            THEN RCmp([f EXCEPT !.pc = "pred", !.mid = rv.idx], arr,
                      f.pred, At(f, rv.idx))
            ELSE Then([f EXCEPT !.mid = rv.idx], arr, QuicksortPartition)
      [] f.pc = "pred" ->
            IF o = "Equal"
            THEN RCall([f EXCEPT !.pc = "equal"], arr,
                       PartitionEqualFrame(f.base, f.len, f.mid))
            ELSE QuicksortPartition(f, arr)
      [] f.pc = "equal" ->
            RCall([f EXCEPT !.pc = "tail", !.mid = rv.idx], arr,
                  QuicksortFrame(f.base + rv.idx, f.len - rv.idx, f.pred, f.limit))
      [] f.pc = "partitioned" -> QuicksortSplit(f, arr, rv.idx, rv.bool)
      [] f.pc = "pis_left" ->
            IF rv.bool
            THEN RCall([f EXCEPT !.pc = "pis_right"], arr,
                       PartialInsertionSortFrame(f.base + f.mid + 1,
                                                 f.len - f.mid - 1))
            ELSE QuicksortLeft(f, arr)
      [] f.pc = "pis_right" ->
            IF rv.bool THEN RRet(arr, Unit) ELSE QuicksortLeft(f, arr)
      [] f.pc = "left" -> QuicksortRight(f, arr)
      [] f.pc = "tail" -> RRet(arr, Unit)

-----------------------------------------------------------------------------
(* sort_by *)

SortByFrame(len) ==
    [fn |-> "sort_by", pc |-> "entry", base |-> 0, len |-> len]

\* the number of bits of n
RECURSIVE BitLen(_)
BitLen(n) == IF n = 0 THEN 0 ELSE 1 + BitLen(n \div 2)

\* u64::leading_zeros (of a length, which fits 64 bits)
LeadingZeros(n) == 64 - BitLen(n)

\* the number of bits of len, without the `+ 1`
DepthLimitBits(len) == 64 - LeadingZeros(len)

\* `64 - len.leading_zeros() as usize + 1`
DepthLimit(len) == 64 - LeadingZeros(len) + 1

\* sort_by without its test for zero-sized types
SortByStepNoSizeTest(f, arr, rv, size) ==
    CASE f.pc = "entry" ->
            RCall([f EXCEPT !.pc = "presorted"], arr,
                  IsPresortedFrame(f.base, f.len))
      [] f.pc = "presorted" ->
            IF rv.bool THEN RRet(arr, Unit)
            ELSE RCall([f EXCEPT !.pc = "tail"], arr,
                       QuicksortFrame(f.base, f.len, NoPred, DepthLimit(f.len)))
      [] f.pc = "tail" -> RRet(arr, Unit)

\* sort_by calling quicksort whatever is_presorted returns
SortByStepAlwaysQuicksort(f, arr, rv, size) ==
    CASE f.pc = "entry" ->
            IF size = 0 THEN RRet(arr, Unit)
            ELSE RCall([f EXCEPT !.pc = "presorted"], arr,
                       IsPresortedFrame(f.base, f.len))
      [] f.pc = "presorted" ->
            RCall([f EXCEPT !.pc = "tail"], arr,
                  QuicksortFrame(f.base, f.len, NoPred, DepthLimit(f.len)))
      [] f.pc = "tail" -> RRet(arr, Unit)

SortByStep(f, arr, rv, size) ==
    CASE f.pc = "entry" ->
            IF size = 0 THEN RRet(arr, Unit)
            ELSE RCall([f EXCEPT !.pc = "presorted"], arr,
                       IsPresortedFrame(f.base, f.len))
      [] f.pc = "presorted" ->
            IF rv.bool THEN RRet(arr, Unit)
            ELSE RCall([f EXCEPT !.pc = "tail"], arr,
                       QuicksortFrame(f.base, f.len, NoPred, DepthLimit(f.len)))
      [] f.pc = "tail" -> RRet(arr, Unit)

-----------------------------------------------------------------------------
(* sort and sort_by_key *)

\* the closure sort passes to sort_by: |a, b| a.cmp(b)
SortCompare == "nat"
\* a closure that compares the keys the other way round: f(b).cmp(&f(a))
SortByKeyCompareExchanged == "keyrev"
\* the closure sort_by_key passes, for f = |k| k.abs(): |a, b| f(a).cmp(&f(b))
SortByKeyCompare == "key"

SortFrame(len) == [fn |-> "sort", pc |-> "entry", base |-> 0, len |-> len]
SortByKeyFrame(len) ==
    [fn |-> "sort_by_key", pc |-> "entry", base |-> 0, len |-> len]

\* the body of both: one call of sort_by on the whole slice
AdapterStep(f, arr) ==
    CASE f.pc = "entry" ->
            RCall([f EXCEPT !.pc = "tail"], arr, SortByFrame(f.len))
      [] f.pc = "tail" -> RRet(arr, Unit)

\* calls of f one call of comparator k makes: f(a) and f(b)
KeyCallsOf(k) == IF k \in KeyKinds THEN 2 ELSE 0

-----------------------------------------------------------------------------
(* The callers: the slices and comparators sort_by is called with *)

\* a sequence as a slice indexed from 0
Slice(seq) == [k \in 0 .. Len(seq) - 1 |-> seq[k + 1]]

\* a scrambled number for position i of the slice generated from seed
Mix(seed, i) == RngNext(RngNext(((i + 1) * (i + 7 + seed)) % 65537) + seed)

\* generated slices of length n: random over few and over many values,
\* ascending, descending, all equal, ascending but for the last element,
\* ascending with a few elements out of place, and random with negatives
Gen(pat, n, seed) ==
    [i \in 0 .. n - 1 |->
        CASE pat = "rand3" -> (Mix(seed, i) \div 4) % 3
          [] pat = "rand" -> (Mix(seed, i) \div 4) % 1000
          [] pat = "asc" -> i
          [] pat = "desc" -> n - 1 - i
          [] pat = "equal" -> 1
          [] pat = "ascviol" -> IF i < n - 1 THEN 1 ELSE 0
          [] pat = "nearly" -> IF i % 11 = seed THEN i + 2 + seed ELSE i
          [] pat = "signed" -> ((Mix(seed, i) \div 4) % 7) - 3]

Seeds == 0 .. MaxSeed

Case(arr, size, kind, seed) ==
    [arr |-> arr, size |-> size, kind |-> kind, seed |-> seed]

\* every slice of length 0..SmallLen over a few values, under every comparator
SmallVals(kind) == IF kind \in KeyKinds THEN -1 .. MaxVal - 1 ELSE 0 .. MaxVal
SmallCases ==
    UNION {{Case(arr, 8, kind, 0) : arr \in [0 .. n - 1 -> SmallVals(kind)]} :
           <<n, kind>> \in (0 .. SmallLen) \X CmpKinds}

\* slices of a zero-sized type (test_sort_zero_sized_type sorts [(); 10] and
\* [(); 100])
ZeroSizedCases ==
    {Case([i \in 0 .. n - 1 |-> 0], 0, "nat", 0) : n \in {0, 1, 2, 10, 100}}

\* slices long enough for quicksort, of a small and of a big element type
MidCases ==
    {Case(Gen(c[1], c[2], seed), c[3], c[4], seed) :
        <<c, seed>> \in
            ({"rand3", "rand", "desc", "ascviol", "nearly"} \X {20, 40} \X {24}
                \X TotalKinds
             \cup {"rand3", "rand", "nearly"} \X {40} \X {8} \X TotalKinds
             \cup {"asc", "equal"} \X {20} \X {8} \X TotalKinds
             \cup {"signed"} \X {20} \X {24} \X {"key"}
             \cup {"rand3"} \X {20, 40} \X {24} \X CrazyKinds)
            \X Seeds}

\* a slice whose partitions under the natural order are all imbalanced, so
\* that the depth limit runs out
Killer ==
    <<25, 21, 4, 23, 28, 24, 19, 1, 3, 22, 5, 7, 12, 9, 0, 11, 26, 10, 8, 14,
      20, 13, 27, 17, 16, 15, 2, 6, 18>>
KillerCases == {Case(Slice(Killer), 24, "nat", 0)}

\* slices long enough for several blocks and for the median of medians
BigCases ==
    {Case(Gen("rand", 150, 0), 8, "nat", 0),
     Case(Gen("rand3", 260, 0), 8, "nat", 0),
     Case(Gen("rand", 260, 0), 8, "random", 0),
     Case(Gen("rand", 150, 0), 24, "random3", 0),
     Case(Gen("rand", 30, 0), 24, "skewed", 3),
     Case(Gen("rand", 260, 0), 24, "skewed", 0)}

\* slices of 2s with one 0 and one 1, under a comparator that looks at its
\* first argument alone
OneZeroOneOne(n) ==
    [i \in 0..(n - 1) |->
        IF i = n \div 4 THEN 0 ELSE IF i = n \div 2 THEN 1 ELSE 2]
FirstCases == {Case(OneZeroOneOne(n), 24, "first", 0) : n \in {40, 60}}

\* short slices that are descending and all equal
ShortCases ==
    {Case(Slice(<<5, 4, 3, 2, 1>>), 8, "nat", 0),
     Case(Slice(<<1, 1, 1, 1, 1>>), 8, "nat", 0)}

Cases ==
    SmallCases \cup ZeroSizedCases \cup MidCases \cup KillerCases \cup BigCases
        \cup FirstCases \cup ShortCases

\* the slice of the crate's examples
DocExample == <<-5, 4, 1, -3, 2>>

\* a call of function fn, with the slice and comparator of case c and the
\* index a
CallWith(fn, c, a) ==
    [fn |-> fn, arr |-> c.arr, size |-> c.size, kind |-> c.kind, seed |-> c.seed,
     arg |-> a]
Call(fn, c) == CallWith(fn, c, 0)

\* calls of sort and of sort_by_key (f = abs), as in the crate's examples
AdapterCalls ==
    {Call("sort", c) :
        c \in {d \in Cases : d.kind = SortCompare /\ d.size # 0}
              \cup {Case(Slice(DocExample), 8, SortCompare, 0)}}
    \cup {Call("sort_by_key", c) :
        c \in {d \in Cases : d.kind = SortByKeyCompare}
              \cup {Case(Slice(DocExample), 8, SortByKeyCompare, 0)}}

\* calls of heapsort, as test_heapsort makes them, of insert_head and of
\* partial_insertion_sort
DirectKinds == OrderKinds \cup {"cycle", "random3"}
DirectSmall == {c \in SmallCases : c.kind \in DirectKinds}
HeapsortCalls ==
    {Call("heapsort", c) :
        c \in DirectSmall
              \cup {Case(Gen(pat, 20, 0), 8, kind, 0) :
                        <<pat, kind>> \in {"rand", "rand3", "desc"} \X TotalKinds}}
InsertHeadCalls == {Call("insert_head", c) : c \in DirectSmall}
PartialInsertionSortCalls ==
    {Call("partial_insertion_sort", c) :
        c \in DirectSmall
              \cup {Case(Gen(pat, n, seed), 8, kind, 0) :
                        <<pat, n, seed, kind>> \in
                            {"desc", "rand", "rand3", "nearly"} \X {5, 6, 7, 12}
                                \X Seeds \X TotalKinds}
              \cup {Case(Gen("signed", 7, 0), 8, "key", 0)}}
\* calls of partition_in_blocks(&mut v[1..], &v[0], compare): the pivot is the
\* first element of the caller's slice, as it is in partition
PartitionInBlocksCalls ==
    {Call("partition_in_blocks", c) :
        c \in {d \in DirectSmall : d.arr # <<>>}
              \cup {Case(Gen(pat, n, 0), 8, kind, 0) :
                        <<pat, n, kind>> \in
                            {"rand", "rand3"} \X {65, 129, 130, 200, 300}
                                \X TotalKinds}
              \cup {Case(Gen("rand3", 200, 0), 8, kind, 0) :
                        kind \in {"cycle", "first", "random", "skewed"}}}

\* calls of partition(v, pivot, compare) and partition_equal(v, mid, compare)
PartitionCalls ==
    {CallWith("partition", c, a) :
        <<c, a>> \in
            {<<d, i>> \in DirectSmall \X (0 .. SmallLen) : i \in DOMAIN d.arr}
            \cup {Case(Gen(pat, 150, 0), 8, kind, 0) :
                    <<pat, kind>> \in {"rand", "asc", "desc"} \X TotalKinds}
                 \X {0, 74, 149}}
PartitionEqualCalls ==
    {CallWith("partition_equal", c, a) :
        <<c, a>> \in
            {<<d, i>> \in SmallCases \X (0 .. SmallLen) : i \in DOMAIN d.arr}
            \cup {Case(Gen("rand3", 40, seed), 8, kind, 0) :
                    <<seed, kind>> \in Seeds \X (TotalKinds \cup {"first"})}
                 \X {0, 1, 2, 3, 20, 39}}

\* calls of choose_pivot
ChoosePivotCalls ==
    {Call("choose_pivot", c) :
        c \in DirectSmall
              \cup {Case(Gen("rand", n, 0), 8, kind, 0) :
                        <<n, kind>> \in
                            {5, 6, 7, 8, 11, 40, 150, 256, 257, 300}
                                \X TotalKinds}}

DirectCalls ==
    AdapterCalls \cup HeapsortCalls \cup InsertHeadCalls
        \cup PartialInsertionSortCalls \cup PartitionInBlocksCalls
        \cup PartitionCalls \cup PartitionEqualCalls \cup ChoosePivotCalls

-----------------------------------------------------------------------------
(* The state machine *)

NoCall ==
    [inp |-> <<>>, out |-> <<>>, kind |-> "none", how |-> "none", calls |-> 0,
     trace |-> 0, keyCalls |-> 0]

\* what the call that has just returned was given and what it did
Outcome(how) ==
    [inp |-> input, out |-> v, kind |-> cmpKind, how |-> how, calls |-> calls,
     trace |-> trace, keyCalls |-> keyCalls]

\* the frame of a call of fn on a whole slice of length len, with the index a
EntryFrame(fn, len, a) ==
    CASE fn = "sort_by" -> SortByFrame(len)
      [] fn = "sort" -> SortFrame(len)
      [] fn = "sort_by_key" -> SortByKeyFrame(len)
      [] fn = "heapsort" -> HeapsortFrame(0, len)
      [] fn = "insert_head" -> InsertHeadFrame(0, len)
      [] fn = "partial_insertion_sort" -> PartialInsertionSortFrame(0, len)
      [] fn = "partition_in_blocks" -> PartitionInBlocksFrame(1, len - 1, 0)
      [] fn = "partition" -> PartitionFrame(0, len, a)
      [] fn = "partition_equal" -> PartitionEqualFrame(0, len, a)
      [] fn = "choose_pivot" -> ChoosePivotFrame(0, len)

\* the digest of a sequence of comparisons t followed by compare(a, b)
TraceNext(t, a, b) == (t * 31 + (a + 8) * 1009 + (b + 8)) % 65537

\* the state in which the caller has just called sort_by(arr, kind)
Start(arr, kind) ==
    /\ v' = arr
    /\ input' = arr
    /\ cmpKind' = kind
    /\ stack' = <<SortByFrame(Cardinality(DOMAIN arr))>>
    /\ req' = None
    /\ ord' = "Equal"
    /\ ret' = Unit
    /\ status' = "running"
    /\ calls' = 0
    /\ entered' = {"sort_by"}
    /\ entry' = "sort_by"
    /\ keyCalls' = 0
    /\ trace' = 0
    /\ arg' = 0

Init ==
    \E c \in {Call("sort_by", d) : d \in Cases} \cup DirectCalls :
        /\ arg = c.arg
        /\ v = c.arr
        /\ input = c.arr
        /\ cmpKind = c.kind
        /\ rng = c.seed
        /\ eltSize = c.size
        /\ stack = <<EntryFrame(c.fn, Cardinality(DOMAIN c.arr), c.arg)>>
        /\ req = None
        /\ ord = "Equal"
        /\ ret = Unit
        /\ status = "running"
        /\ calls = 0
        /\ entered = {c.fn}
        /\ round = 1
        /\ prev = NoCall
        /\ entry = c.fn
        /\ keyCalls = 0
        /\ trace = 0

\* a function is at a label of its own: no comparator call is in flight
Running == status = "running" /\ req = None /\ stack # <<>>
At_(fn) == Running /\ Top.fn = fn

\* the effect on the state of a step that passes comparator kind on
ApplyWith(step, kind) ==
    \E res \in {step} :
        /\ v' = IF res.kind = "fault" THEN v ELSE res.v
        /\ stack' = CASE res.kind \in {"cmp", "step"} -> Append(Rest, res.f)
                      [] res.kind = "call" -> Append(Append(Rest, res.f), res.g)
                      [] res.kind = "ret" -> Rest
                      [] res.kind = "fault" -> stack
        /\ req' = IF res.kind = "cmp" THEN [x |-> res.x, y |-> res.y] ELSE None
        /\ ret' = IF res.kind = "ret" THEN res.val ELSE ret
        /\ status' = CASE res.kind = "fault" -> "fault"
                       [] res.kind = "ret" /\ Rest = <<>> -> "done"
                       [] OTHER -> status
        /\ entered' = IF res.kind = "call" THEN entered \cup {res.g.fn} ELSE entered
        /\ cmpKind' = kind
        /\ UNCHANGED <<ord, calls, rng, eltSize, input, round, prev, entry,
                       keyCalls, trace, arg>>

\* the step's effect on the state
Apply(step) == ApplyWith(step, cmpKind)

sort == At_("sort") /\ ApplyWith(AdapterStep(Top, v), SortCompare)
sort_by_key ==
    At_("sort_by_key") /\ ApplyWith(AdapterStep(Top, v), SortByKeyCompare)
sort_by == At_("sort_by") /\ Apply(SortByStep(Top, v, ret, eltSize))
is_presorted == At_("is_presorted") /\ Apply(IsPresortedStep(Top, v, ord))
quicksort == At_("quicksort") /\ Apply(QuicksortStep(Top, v, ord, ret, eltSize))
insertion_sort == At_("insertion_sort") /\ Apply(InsertionSortStep(Top, v))
insert_head == At_("insert_head") /\ Apply(InsertHeadStep(Top, v, ord))
partial_insertion_sort ==
    At_("partial_insertion_sort") /\ Apply(PartialInsertionSortStep(Top, v, ret))
heapsort == At_("heapsort") /\ Apply(HeapsortStep(Top, v))
sift_down == At_("sift_down") /\ Apply(SiftDownStep(Top, v, ord))
choose_pivot == At_("choose_pivot") /\ Apply(ChoosePivotStep(Top, v, ord))
partition == At_("partition") /\ Apply(PartitionStep(Top, v, ord, ret))
partition_in_blocks ==
    At_("partition_in_blocks") /\ Apply(PartitionInBlocksStep(Top, v, ord))
partition_equal == At_("partition_equal") /\ Apply(PartitionEqualStep(Top, v, ord))

\* what a reference handed to the comparator points at
Deref(x) == IF x = TmpRef THEN Top.tmp ELSE v[x]

\* the comparator returns
Compare ==
    /\ status = "running" /\ req # None
    /\ ord' \in CompareSet(cmpKind, rng, Deref(req.x), Deref(req.y))
    /\ rng' = IF cmpKind \in RandomKinds THEN RngNext(rng) ELSE rng
    /\ calls' = calls + 1
    /\ keyCalls' = keyCalls + KeyCallsOf(cmpKind)
    /\ trace' = TraceNext(trace, Deref(req.x), Deref(req.y))
    /\ req' = None
    /\ UNCHANGED <<v, stack, ret, status, entered, cmpKind, eltSize, input,
                   round, prev, entry, arg>>

\* unwinding without the guard: the hole stays as it is
DropFrameNoGuard(f, arr) == arr

\* what unwinding a frame does to the slice: the InsertionHole of an
\* insert_head that has moved v[0] out is dropped
DropFrame(f, arr) ==
    IF f.fn = "insert_head" /\ f.pc = "shift"
    THEN HoleDrop(arr, f.base + f.dest, f.tmp)
    ELSE arr

RECURSIVE Unwind(_, _)
Unwind(stk, arr) ==
    IF stk = <<>> THEN arr
    ELSE LET dropped == DropFrame(stk[Len(stk)], arr)
         IN  CHOOSE res \in {Unwind(s, a) : s \in {SubSeq(stk, 1, Len(stk) - 1)},
                                            a \in {dropped}} : TRUE

\* the comparator panics: the panic unwinds every frame and leaves sort_by
ComparePanic ==
    /\ status = "running" /\ req # None
    /\ v' = Unwind(stack, v)
    /\ stack' = <<>>
    /\ status' = "panicked"
    /\ calls' = calls + 1
    /\ UNCHANGED <<req, ord, ret, entered, cmpKind, rng, eltSize, input, round,
                   prev, entry, keyCalls, trace, arg>>

\* the caller sorts the slice it got back once more, with the same comparator
SortAgain ==
    /\ status = "done" /\ round < MaxRounds
    /\ entry = "sort_by" /\ cmpKind \in OrderKinds
    /\ prev' = Outcome("again")
    /\ round' = round + 1
    /\ Start(v, cmpKind)
    /\ UNCHANGED <<rng, eltSize>>

\* the caller sorts the slice it first had with the comparator's arguments
\* exchanged (|a, b| b.cmp(a))
SortReversed ==
    /\ status = "done" /\ round < MaxRounds
    /\ entry = "sort_by" /\ cmpKind \in OrderKinds
    /\ prev' = Outcome("reversed")
    /\ round' = round + 1
    /\ Start(input, Reversed(cmpKind))
    /\ UNCHANGED <<rng, eltSize>>

\* the comparator a direct call of sort_by has to be given to do what the
\* adapter fn does
AdapterCompare(fn) == IF fn = "sort" THEN "nat" ELSE "key"

\* the caller has called sort or sort_by_key, and now calls sort_by itself on
\* the slice it first had
SortByDirect ==
    /\ status = "done" /\ round < MaxRounds
    /\ entry \in {"sort", "sort_by_key"}
    /\ prev' = Outcome(entry)
    /\ round' = round + 1
    /\ Start(input, AdapterCompare(entry))
    /\ UNCHANGED <<rng, eltSize>>

Next ==
    \/ sort
    \/ sort_by_key
    \/ sort_by
    \/ is_presorted
    \/ quicksort
    \/ insertion_sort
    \/ insert_head
    \/ partial_insertion_sort
    \/ heapsort
    \/ sift_down
    \/ choose_pivot
    \/ partition
    \/ partition_in_blocks
    \/ partition_equal
    \/ Compare
    \/ ComparePanic
    \/ SortAgain
    \/ SortReversed
    \/ SortByDirect

Spec == Init /\ [][Next]_vars

\* sort_by runs on its caller's thread, which is not suspended for ever: a
\* function that can take its next step takes it, and a comparator that has
\* been called returns or panics
FairSpec == Spec /\ WF_vars(Next)

-----------------------------------------------------------------------------
(* Properties *)

Length(arr) == Cardinality(DOMAIN arr)

\* no adjacent pair of arr compares Greater under comparator k
Sorted(arr, k) ==
    \A i \in DOMAIN arr :
        (i + 1) \in DOMAIN arr => CompareFn(k, 0, arr[i], arr[i + 1]) # "Greater"

SameElements(a, b) == DOMAIN a = DOMAIN b /\ BagOf(a) = BagOf(b)

\* the sorting functions the crate exports
SortEntries == {"sort_by", "sort", "sort_by_key"}

\* the caller's slice is ascending under its comparator, a comparator whose
\* answer depends on its arguments alone
AscendingInput ==
    /\ entry \in SortEntries
    /\ cmpKind \notin RandomKinds \cup AnyKinds /\ Sorted(input, cmpKind)

\* C1: when sort_by returns under a comparator that is an order (of the
\* elements or of their keys), no adjacent pair of v compares Greater.
SortednessOnReturn ==
    (status = "done" /\ entry \in SortEntries /\ cmpKind \in OrderKinds)
        => Sorted(v, cmpKind)

SortednessWitness ==
    /\ status = "done" /\ cmpKind \in OrderKinds
    /\ "heapsort" \in entered /\ "partition_in_blocks" \in entered
    /\ ~Sorted(input, cmpKind) /\ Sorted(v, cmpKind)

\* C2: when sort_by returns, under any comparator, v has the length of the
\* input and holds the same elements, each as often as the input.
PermutationOnReturn == status = "done" => SameElements(v, input)

PermutationWitness ==
    /\ status = "done" /\ cmpKind \in CrazyKinds
    /\ "partition_in_blocks" \in entered
    /\ v # input /\ SameElements(v, input)

\* C3: once control has left sort_by under a comparator that panicked or that
\* is no order, by return or by unwinding, v holds exactly the input's
\* elements.
MultisetAfterPanicOrLies ==
    (status = "panicked" \/ (status = "done" /\ cmpKind \notin OrderKinds))
        => SameElements(v, input)

\* the comparator panicked on compare(tmp, v[i]), with v[0] moved out
PanicWithHoleWitness ==
    /\ status = "panicked" /\ req # None /\ req.x = TmpRef
    /\ v # input /\ SameElements(v, input)

\* C4: every call of sort_by ends, whatever the comparator answers, and every
\* nested quicksort call is on a strictly shorter slice than the calls around
\* it.
RecursionShrinks ==
    \A i, j \in DOMAIN stack :
        (i < j /\ stack[i].fn = "quicksort" /\ stack[j].fn = "quicksort")
            => stack[j].len < stack[i].len

SortByTerminates ==
    /\ []RecursionShrinks
    /\ (status = "running") ~> (status \in {"done", "panicked"})

TerminatesWitness ==
    /\ status = "done" /\ cmpKind \in RandomKinds
    /\ "heapsort" \in entered /\ "partition" \in entered

\* C5: no index is out of its slice, no split point beyond its slice, no
\* unsigned subtraction below zero and no debug assertion false, whatever the
\* comparator answers.
NoFault == status # "fault"

NoFaultWitness ==
    /\ status = "done" /\ cmpKind \in CrazyKinds
    /\ Length(v) > 2 * BLOCK
    /\ {"partition_in_blocks", "partition_equal", "insert_head"} \subseteq entered

\* C6 (as amended): for ascending input of length n >= 1 of a type that is not
\* zero-sized, sort_by never enters quicksort, never changes v, and has
\* called the comparator exactly n-1 times when it returns.
PresortedShortCircuit ==
    (AscendingInput /\ eltSize # 0 /\ Length(input) >= 1)
        => /\ "quicksort" \notin entered
           /\ v = input
           /\ status = "done" => calls = Length(input) - 1

PresortedWitness ==
    /\ status = "done" /\ AscendingInput /\ eltSize # 0
    /\ Length(input) >= 20 /\ calls = Length(input) - 1

\* C6 (as stated): for ascending input of any length n and any element type,
\* sort_by has called the comparator exactly n-1 times when it returns.
PresortedCallsAsStated ==
    (AscendingInput /\ status = "done")
        => (calls = Length(input) - 1 /\ v = input /\ "quicksort" \notin entered)

\* C7: for a zero-sized element type sort_by returns at once: no function is
\* entered, the comparator is never called and v is not modified.
ZeroSizedReturnsAtOnce ==
    eltSize = 0
        => /\ calls = 0 /\ req = None
           /\ v = input
           /\ entered = {"sort_by"}
           /\ status \in {"running", "done"}

ZeroSizedWitness == eltSize = 0 /\ status = "done" /\ Length(v) = 100

\* C8: for a slice of length 0 or 1 the comparator is never called, v is
\* unchanged and quicksort is not entered.
ShortSliceUntouched ==
    Length(input) <= 1
        => /\ calls = 0 /\ req = None
           /\ v = input
           /\ "quicksort" \notin entered
           /\ status \in {"running", "done"}

ShortSliceWitness ==
    /\ Length(input) = 1 /\ eltSize # 0
    /\ status = "done" /\ "is_presorted" \in entered

\* C9: sorting the result of sort_by again with the same comparator, an
\* order, leaves it as it is, element for element.
Idempotence ==
    (prev.how = "again" /\ status = "done") => v = prev.out

IdempotenceWitness ==
    /\ prev.how = "again" /\ status = "done"
    /\ prev.out # prev.inp /\ Length(v) >= 20 /\ v = prev.out

\* C10: sorting the input with the comparator's arguments exchanged gives the
\* reverse of sorting it with the comparator, up to the order of elements
\* that compare Equal: position by position the two compare Equal, they hold
\* the same elements, and they are the same when no two distinct elements
\* compare Equal.
ReverseEquivalence ==
    (prev.how = "reversed" /\ status = "done")
        => /\ SameElements(v, prev.out)
           /\ \A i \in DOMAIN v :
                CompareFn(prev.kind, 0, v[i], prev.out[Length(v) - 1 - i]) = "Equal"
           /\ prev.kind \in TotalKinds => v = Reverse(prev.out, 0, Length(v))

ReverseEquivalenceWitness ==
    /\ prev.how = "reversed" /\ status = "done"
    /\ prev.kind \in KeyKinds
    /\ v # Reverse(prev.out, 0, Length(v))
    /\ prev.out # prev.inp

\* C11: sort and sort_by_key do what sort_by does with the closure each of
\* them builds.  After sort(v) the caller's slice is what sort_by leaves of
\* the same input under a.cmp(b); after sort_by_key(v, f) it is what sort_by
\* leaves under f(a).cmp(&f(b)), after the same comparisons in the same
\* order, f was called twice for every comparison, and the keys of v are
\* non-decreasing.
AdapterEquivalence ==
    (status = "done" /\ prev.how \in {"sort", "sort_by_key"})
        => /\ v = prev.out
           /\ calls = prev.calls /\ trace = prev.trace
           /\ prev.how = "sort" => Sorted(prev.out, "nat")
           /\ prev.how = "sort_by_key"
                => /\ prev.keyCalls = 2 * prev.calls
                   /\ Sorted(prev.out, "key")

AdapterEquivalenceWitness ==
    /\ status = "done" /\ prev.how = "sort_by_key"
    /\ prev.inp = Slice(DocExample)
    /\ prev.out = Slice(<<1, 2, -3, 4, -5>>)
    /\ prev.calls > 0 /\ prev.keyCalls = 2 * prev.calls
    /\ v = prev.out

\* C12: heapsort called on a whole slice of any length, duplicates or not,
\* under a comparator that is an order, returns with no adjacent pair of v
\* comparing Greater and with v holding the elements of the input, each as
\* often as the input.
HeapsortSorts ==
    (entry = "heapsort" /\ status = "done" /\ cmpKind \in OrderKinds)
        => Sorted(v, cmpKind) /\ SameElements(v, input)

HeapsortSortsWitness ==
    /\ entry = "heapsort" /\ status = "done" /\ cmpKind \in TotalKinds
    /\ Length(v) = 20 /\ \E i \in DOMAIN v : (i + 1) \in DOMAIN v /\ v[i] = v[i + 1]
    /\ ~Sorted(input, cmpKind)
    /\ Sorted(v, cmpKind) /\ SameElements(v, input)

\* the largest k with 2^k <= n, for n >= 1
RECURSIVE FloorLog2(_)
FloorLog2(n) == IF n <= 1 THEN 0 ELSE 1 + FloorLog2(n \div 2)

\* the positions in the stack of a sort_by that has just called quicksort
FirstQuicksort ==
    {i \in 2..Len(stack) :
        /\ stack[i - 1].fn = "sort_by"
        /\ stack[i].fn = "quicksort" /\ stack[i].pc = "entry"}

\* C13: the depth limit sort_by passes to quicksort for a slice of length n
\* is floor(log2 n) + 2, the number of bits of n plus one.
InitialLimit ==
    \A i \in FirstQuicksort :
        /\ stack[i].len = Length(v)
        /\ stack[i].limit = FloorLog2(stack[i].len) + 2

InitialLimitWitness ==
    \E i \in FirstQuicksort :
        /\ stack[i].len = 260 /\ FloorLog2(stack[i].len) = 8
        /\ stack[i].limit = 10

\* the statement of C13 with the value floor(log2 n) + 1
InitialLimitAsStated ==
    \A i \in FirstQuicksort :
        stack[i].len >= 1 => stack[i].limit = FloorLog2(stack[i].len) + 1

\* the number of calls of quicksort that have not returned
NestingDepth ==
    Cardinality({i \in 1..Len(stack) : stack[i].fn = "quicksort"})

\* a constant to try the bound of C14 with
NestingConstant == 16

\* C14: at every moment of a sort of n elements the number of active calls
\* of quicksort is at most 2 * (floor(log2 n) + 1) plus a constant that does
\* not depend on n.
NestingBound ==
    Length(v) >= 1
        => NestingDepth <= 2 * (FloorLog2(Length(v)) + 1) + NestingConstant

\* the caller's slice is descending under its comparator, an order: v[0]
\* compares Greater with v[1] and no later adjacent pair compares Less
DescendingInput ==
    /\ entry \in SortEntries /\ cmpKind \in OrderKinds
    /\ Length(input) >= 2
    /\ CompareFn(cmpKind, 0, input[0], input[1]) = "Greater"
    /\ \A i \in 2..(Length(input) - 1) :
            CompareFn(cmpKind, 0, input[i - 1], input[i]) # "Less"

\* C15: for descending input of length n sort_by enters nothing but
\* is_presorted, which leaves v alone while it scans, and returns with v the
\* input reversed after exactly n-1 calls of the comparator.
DescendingReversed ==
    DescendingInput
        => /\ entered \subseteq SortEntries \cup {"is_presorted"}
           /\ (\E i \in 1..Len(stack) : stack[i].fn = "is_presorted")
                => v = input
           /\ status = "done"
                => /\ calls = Length(input) - 1
                   /\ \A i \in DOMAIN v : v[i] = input[Length(input) - 1 - i]

DescendingReversedWitness ==
    /\ DescendingInput /\ status = "done"
    /\ input = Slice(<<5, 4, 3, 2, 1>>) /\ v = Slice(<<1, 2, 3, 4, 5>>)
    /\ calls = 4 /\ "quicksort" \notin entered

\* the caller sorts [1, 1, 1, 1, 1] under an order
AllEqualInput ==
    /\ entry \in SortEntries /\ cmpKind \in OrderKinds
    /\ input = Slice(<<1, 1, 1, 1, 1>>)

\* C16 (as amended): sorting [1, 1, 1, 1, 1] never changes it and enters
\* nothing but is_presorted, neither quicksort nor partition_equal; the call
\* ends, and ends after 4 calls of the comparator unless one of them panics.
AllEqualUnchanged ==
    /\ [](AllEqualInput
            => /\ v = input
               /\ entered \subseteq SortEntries \cup {"is_presorted"}
               /\ status = "done" => calls = 4)
    /\ (AllEqualInput /\ status = "running")
            ~> (AllEqualInput /\ status \in {"done", "panicked"})

AllEqualUnchangedWitness ==
    /\ AllEqualInput /\ status = "done" /\ eltSize # 0
    /\ v = Slice(<<1, 1, 1, 1, 1>>) /\ calls = 4
    /\ entered = {"sort_by", "is_presorted"}

\* C16 (as stated): sorting [1, 1, 1, 1, 1] leaves it unchanged and, unless
\* the comparator panics, comes to enter partition_equal.
AllEqualAsStated ==
    /\ [](AllEqualInput => (status = "done" => v = input))
    /\ (AllEqualInput /\ status = "running")
            ~> (AllEqualInput
                    /\ ("partition_equal" \in entered \/ status = "panicked"))

\* the caller calls insert_head on a slice whose v[1..] is sorted under its
\* comparator, an order
InsertHeadInput ==
    /\ entry = "insert_head" /\ cmpKind \in OrderKinds
    /\ \A i \in 1..(Length(input) - 2) :
            CompareFn(cmpKind, 0, input[i], input[i + 1]) # "Greater"

\* v[0] compares Greater with v[1]
HeadGreater ==
    Length(input) >= 2 /\ CompareFn(cmpKind, 0, input[0], input[1]) = "Greater"

\* the first index of v[1..] whose element is not less than v[0], or the
\* length where there is none
InsertPoint ==
    LET notLess == {i \in 1..(Length(input) - 1) :
                        CompareFn(cmpKind, 0, input[0], input[i]) # "Greater"}
    IN IF notLess = {} THEN Length(input)
       ELSE CHOOSE i \in notLess : \A j \in notLess : i <= j

\* the input with v[0] moved to just before InsertPoint
HeadInserted ==
    [k \in DOMAIN input |->
        IF k < InsertPoint - 1 THEN input[k + 1]
        ELSE IF k = InsertPoint - 1 THEN input[0] ELSE input[k]]

\* C17: insert_head on a slice whose v[1..] is sorted under an order.  If the
\* slice is shorter than 2 or v[0] does not compare Greater with v[1], it
\* returns false after at most one comparison and never writes to v.
\* Otherwise it returns true with v sorted, a permutation of the input, the
\* old v[0] just before the first element of v[1..] that is not less than it
\* (or last).  It returns true exactly when it has modified v.
InsertHeadContract ==
    InsertHeadInput
        => /\ ~HeadGreater => (v = input /\ calls <= 1)
           /\ status = "done"
                => /\ ret.bool = HeadGreater
                   /\ ret.bool = (v # input)
                   /\ HeadGreater
                        => /\ v = HeadInserted
                           /\ Sorted(v, cmpKind) /\ SameElements(v, input)

InsertHeadContractWitness ==
    /\ InsertHeadInput /\ HeadGreater /\ status = "done"
    /\ Length(input) = SmallLen /\ InsertPoint = 2
    /\ CompareFn(cmpKind, 0, input[0], input[InsertPoint]) = "Equal"
    /\ ret.bool /\ v = HeadInserted /\ v # input

\* insert_head has called compare(tmp, &v[i]) and the call has not returned
Shifting == status = "running" /\ req # None /\ req.x = TmpRef

\* the slot hole.dest points to
HoleSlot == Top.base + Top.dest

\* C18: at every call compare(tmp, &v[i]) of insert_head the hole is one slot
\* of the slice, hole.dest; it holds a stale copy of the element shifted out
\* of it, the comparator is handed tmp and the slot after the hole, never
\* the hole, and v with tmp written into the hole holds exactly the input's
\* elements.  If the call panics the hole's drop writes tmp there, and
\* after unwinding v holds exactly the input's elements.
HoleDiscipline ==
    /\ [](Shifting
            => /\ Top.fn = "insert_head" /\ Top.dest \in 1..(Top.len - 1)
               /\ req.y = HoleSlot + 1 /\ req.y < Top.base + Top.len
               /\ v[HoleSlot] = v[HoleSlot - 1]
               /\ SameElements(Put(v, HoleSlot, Top.tmp), input))
    /\ []((status = "panicked" /\ req # None /\ req.x = TmpRef)
            => SameElements(v, input))
    /\ [][(Shifting /\ status' = "panicked")
            => v' = Put(v, HoleSlot, Top.tmp)]_vars

HoleDisciplineWitness ==
    /\ Shifting /\ Top.dest >= 2 /\ Len(stack) >= 3
    /\ v[HoleSlot] # Top.tmp
    /\ ~SameElements(v, input)
    /\ SameElements(Put(v, HoleSlot, Top.tmp), input)

\* the caller calls partial_insertion_sort under an order
PartialInsertionSortInput ==
    entry = "partial_insertion_sort" /\ cmpKind \in OrderKinds

\* the indices whose insert_head modifies v in a full right-to-left scan: the
\* element there is greater than some element after it
Modifying ==
    {i \in DOMAIN input :
        \E j \in DOMAIN input :
            i < j /\ CompareFn(cmpKind, 0, input[i], input[j]) = "Greater"}

\* the index of the 5th modifying insert_head of the scan
FifthModifying ==
    CHOOSE i \in Modifying : Cardinality({j \in Modifying : j >= i}) = 5

\* C19: partial_insertion_sort under an order.  It returns true exactly when
\* at most 4 calls of insert_head of the right-to-left scan modify v, and then
\* v is sorted.  Otherwise it returns false right after the 5th modifying
\* call: v holds the input's elements, sorted from that call's index on and
\* as in the input before it.  For n < 2 it returns true and the comparator
\* is never called.
PartialInsertionSortContract ==
    PartialInsertionSortInput
        => /\ Length(input) < 2 => calls = 0
           /\ status = "done"
                => /\ ret.bool = (Cardinality(Modifying) <= 4)
                   /\ SameElements(v, input)
                   /\ ret.bool => Sorted(v, cmpKind)
                   /\ ~ret.bool
                        => /\ \A k \in DOMAIN v :
                                k < FifthModifying => v[k] = input[k]
                           /\ \A k \in DOMAIN v :
                                (k >= FifthModifying /\ (k + 1) \in DOMAIN v)
                                    => CompareFn(cmpKind, 0, v[k], v[k + 1])
                                            # "Greater"

PartialInsertionSortWitness ==
    /\ PartialInsertionSortInput /\ status = "done"
    /\ ~ret.bool /\ Cardinality(Modifying) > 5 /\ FifthModifying > 0
    /\ v # input /\ ~Sorted(v, cmpKind) /\ SameElements(v, input)

\* is_presorted has just returned to sort_by, under a comparator whose answer
\* depends on its arguments alone
PresortedReturned ==
    /\ status = "running" /\ Len(stack) >= 1
    /\ Top.fn = "sort_by" /\ Top.pc = "presorted"
    /\ cmpKind \notin RandomKinds \cup AnyKinds

\* what the comparator answers for input[i] and input[j]
InputOrdering(i, j) == CompareFn(cmpKind, 0, input[i], input[j])

\* no adjacent pair of the input compares Greater
NonDecreasing ==
    \A i \in 1..(Length(input) - 1) : InputOrdering(i - 1, i) # "Greater"

\* v[0] compares Greater with v[1] and no later adjacent pair compares Less
NonIncreasing ==
    /\ Length(input) >= 2 /\ InputOrdering(0, 1) = "Greater"
    /\ \A i \in 2..(Length(input) - 1) : InputOrdering(i - 1, i) # "Less"

\* the adjacent pairs from the second on that end the scan of the input
ViolatingPairs ==
    {i \in 2..(Length(input) - 1) :
        InputOrdering(i - 1, i) =
            (IF InputOrdering(0, 1) = "Greater" THEN "Less" ELSE "Greater")}

\* C20: is_presorted returns true exactly when the slice is shorter than 2, or
\* non-decreasing, or v[0] compares Greater with v[1] and no later adjacent
\* pair compares Less.  When it returns true v is the input reversed in the
\* last case and the input otherwise, ascending under an order, and every
\* adjacent pair has been compared once; when it returns false v is the
\* input and the last pair compared is the first violating one.  It does not
\* write to v while it scans.
PresortedContract ==
    /\ (Len(stack) >= 1 /\ Top.fn = "is_presorted") => v = input
    /\ PresortedReturned
        => /\ ret.bool = (Length(input) < 2 \/ NonDecreasing \/ NonIncreasing)
           /\ ret.bool
                => /\ calls = IF Length(input) < 2 THEN 0 ELSE Length(input) - 1
                   /\ \A i \in DOMAIN v :
                        v[i] = IF NonIncreasing THEN input[Length(input) - 1 - i]
                               ELSE input[i]
                   /\ cmpKind \in OrderKinds => Sorted(v, cmpKind)
           /\ ~ret.bool
                => /\ v = input
                   /\ calls \in ViolatingPairs
                   /\ \A i \in ViolatingPairs : calls <= i

PresortedContractWitness ==
    /\ PresortedReturned /\ ~ret.bool /\ cmpKind \in OrderKinds
    /\ InputOrdering(0, 1) = "Greater"
    /\ calls >= 3 /\ calls < Length(input) - 1
    /\ Cardinality(ViolatingPairs) >= 2 /\ v = input

\* the caller calls partition_in_blocks(&mut v[1..], &v[0], compare) under an
\* order
BlocksInput == entry = "partition_in_blocks" /\ cmpKind \in OrderKinds

\* element x compares Less to element p under the caller's comparator
LessThan(x, p) == CompareFn(cmpKind, 0, x, p) = "Less"

\* the number of elements of arr from index from on that compare Less to p
CountLess(arr, from, p) ==
    Cardinality({i \in DOMAIN arr : i >= from /\ LessThan(arr[i], p)})

\* C21: partition_in_blocks under an order, on a slice of any length.  It
\* returns the number k of elements that compare Less to the pivot; on
\* return the first k elements of the slice compare Less to the pivot and
\* the others do not, the slice holds the elements it held, the pivot is
\* where it was, and the comparator was called once for each element, always
\* with the pivot as its second argument.
BlocksContract ==
    BlocksInput
        => /\ req # None => (req.y = 0 /\ req.x >= 1)
           /\ calls <= Length(input) - 1
           /\ status = "done"
                => /\ ret.idx = CountLess(input, 1, input[0])
                   /\ \A i \in 1..(Length(v) - 1) :
                        (i - 1 < ret.idx) <=> LessThan(v[i], v[0])
                   /\ SameElements(v, input) /\ v[0] = input[0]
                   /\ calls = Length(input) - 1

BlocksContractWitness ==
    /\ BlocksInput /\ status = "done"
    /\ Length(input) > 4 * BLOCK
    /\ ret.idx > BLOCK /\ ret.idx < Length(input) - 1 - BLOCK
    /\ v # input /\ calls = Length(input) - 1

\* partition_in_blocks, under an order, is at the head of its while loop:
\* before the first iteration, between two iterations or after the last
BlocksBoundary ==
    /\ status = "running" /\ req = None /\ stack # <<>>
    /\ cmpKind \in OrderKinds
    /\ Top.fn = "partition_in_blocks" /\ Top.pc \in {"entry", "while"}

\* C22: at the boundary of every iteration of the loop of partition_in_blocks
\* l <= r, every element of v[..l] compares Less to the pivot and no element
\* of v[r..] does; and when an iteration has made its swaps the offsets of
\* one side at least are used up.
BlocksInvariant ==
    BlocksBoundary
        => /\ 0 <= Top.l /\ Top.l <= Top.r /\ Top.r <= Top.len
           /\ \A i \in 0..(Top.l - 1) :
                LessThan(v[Top.base + i], v[Top.pivot])
           /\ \A i \in Top.r..(Top.len - 1) :
                ~LessThan(v[Top.base + i], v[Top.pivot])
           /\ Top.pc = "while"
                => (Top.start_l = Top.len_l \/ Top.start_r = Top.len_r)

BlocksInvariantWitness ==
    /\ BlocksBoundary /\ Top.pc = "while" /\ ~Top.is_done
    /\ Top.l >= BLOCK /\ Top.r <= Top.len - BLOCK
    /\ Top.start_l < Top.len_l /\ Top.start_r = Top.len_r
    /\ Len(stack) >= 4

\* partition_in_blocks is the innermost active function, under any comparator
InBlocks ==
    status = "running" /\ stack # <<>> /\ Top.fn = "partition_in_blocks"

\* index i of the slice lies between the bounds l and r of frame f
Between(f, i) == f.l <= i /\ i < f.r

\* the number of pairs the swap step of frame f exchanges
SwapCount(f) == Min(f.len_l - f.start_l, f.len_r - f.start_r)

\* C23: inside partition_in_blocks, whatever the comparator answers: the
\* remainder of the last round is not negative, block_l and block_r are at
\* most BLOCK, the blocks being traced or swapped do not overlap, offsets
\* are written below index BLOCK and are smaller than 256, and the elements
\* the traces, the swaps and the two last loops touch lie in v[l..r].
BlocksBounds ==
    InBlocks
        => /\ 0 <= Top.l /\ Top.l <= Top.r /\ Top.r <= Top.len
           /\ 0 <= Top.block_l /\ Top.block_l <= BLOCK
           /\ 0 <= Top.block_r /\ Top.block_r <= BLOCK
           /\ 0 <= Top.start_l /\ Top.start_l <= Top.len_l /\ Top.len_l <= BLOCK
           /\ 0 <= Top.start_r /\ Top.start_r <= Top.len_r /\ Top.len_r <= BLOCK
           /\ (/\ Top.pc \in {"entry", "while"} /\ ~Top.is_done
               /\ Top.r - Top.l <= 2 * BLOCK
               /\ (Top.start_l < Top.len_l \/ Top.start_r < Top.len_r))
                => Top.r - Top.l - BLOCK >= 0
           /\ Top.pc \in {"scan_l", "scan_r", "swaps"}
                => Top.l + Top.block_l <= Top.r - Top.block_r
           /\ (Top.pc = "scan_l" /\ req # None)
                => /\ Top.len_l < BLOCK /\ Top.i < Top.block_l
                   /\ AsU8(Top.i) = Top.i
                   /\ req.x = Top.base + Top.l + Top.i
                   /\ Between(Top, Top.l + Top.i)
           /\ (Top.pc = "scan_r" /\ req # None)
                => /\ Top.len_r < BLOCK /\ Top.i < Top.block_r
                   /\ AsU8(Top.i) = Top.i
                   /\ req.x = Top.base + Top.r - Top.i - 1
                   /\ Between(Top, Top.r - Top.i - 1)
           /\ Top.pc = "swaps"
                => \A j \in 0..(SwapCount(Top) - 1) :
                        /\ Top.start_l + j < BLOCK /\ Top.start_r + j < BLOCK
                        /\ Between(Top, Top.l + Top.offsets_l[Top.start_l + j])
                        /\ Between(Top,
                                Top.r - Top.offsets_r[Top.start_r + j] - 1)
           /\ (Top.pc = "drain_l" /\ Top.start_l < Top.len_l)
                => /\ Between(Top, Top.l + Top.offsets_l[Top.len_l - 1])
                   /\ Between(Top, Top.r - 1)
           /\ (Top.pc = "drain_r" /\ Top.start_r < Top.len_r)
                => /\ Between(Top, Top.r - Top.offsets_r[Top.len_r - 1] - 1)
                   /\ Between(Top, Top.l)

BlocksBoundsWitness ==
    /\ InBlocks /\ cmpKind \in RandomKinds
    /\ Top.pc = "swaps" /\ Top.is_done /\ Top.len > 2 * BLOCK
    /\ Top.start_l > 0 /\ SwapCount(Top) >= 1
    /\ Top.block_r < BLOCK /\ Top.l + Top.block_l = Top.r - Top.block_r

\* the caller calls partition(v, arg, compare) under an order
PartitionInput == entry = "partition" /\ cmpKind \in OrderKinds

\* C24: partition(v, pivot, compare) under an order, on a slice of length
\* n >= 1 with pivot < n.  It returns mid, the number of elements that
\* compare Less to the pivot element, 0 <= mid <= n-1; on return v[mid] is
\* the element that was at v[pivot], the elements before it compare Less to
\* it, the elements after it do not, and v holds the elements of the input.
PartitionContract ==
    (PartitionInput /\ status = "done")
        => /\ ret.idx = CountLess(input, 0, input[arg])
           /\ 0 <= ret.idx /\ ret.idx <= Length(input) - 1
           /\ v[ret.idx] = input[arg]
           /\ \A i \in DOMAIN v :
                /\ i < ret.idx => LessThan(v[i], v[ret.idx])
                /\ i > ret.idx => ~LessThan(v[i], v[ret.idx])
           /\ SameElements(v, input)

PartitionContractWitness ==
    /\ PartitionInput /\ status = "done"
    /\ Length(input) = 150 /\ arg = 74
    /\ ret.idx > 16 /\ ret.idx < 133 /\ ret.idx # arg
    /\ ~ret.bool /\ v[ret.idx] = input[arg] /\ v # input

\* the caller's slice after `v.swap(0, pivot)`
PivotFirst == Swap(input, 0, arg)

\* v[1..] is then a run of elements Less than the pivot followed by a run of
\* elements not Less than it, either run possibly empty
AlreadyPartitioned ==
    LET m == 1 + CountLess(PivotFirst, 1, PivotFirst[0])
    IN  \A i \in 1..(Length(input) - 1) :
            (i < m) <=> LessThan(PivotFirst[i], PivotFirst[0])

\* C25: partition returns was_partitioned = true exactly when, the pivot
\* swapped to index 0, v[1..] is already a run of elements Less than the
\* pivot followed by a run of elements not Less than it.  Then
\* partition_in_blocks is called on an empty slice, returns 0 and moves
\* nothing, and v differs from the input by the swaps (0, pivot) and
\* (0, mid) alone.
WasPartitioned ==
    PartitionInput
        => /\ status = "done"
                => /\ ret.bool = AlreadyPartitioned
                   /\ ret.bool => v = Swap(PivotFirst, 0, ret.idx)
           /\ (AlreadyPartitioned /\ InBlocks)
                => (Top.len = 0 /\ v = PivotFirst)
           /\ (/\ AlreadyPartitioned /\ status = "running" /\ req = None
               /\ Len(stack) = 1 /\ Top.pc = "blocks")
                => (ret.idx = 0 /\ v = PivotFirst /\ Top.l >= Top.r)

WasPartitionedWitness ==
    /\ PartitionInput /\ status = "done" /\ ret.bool
    /\ "partition_in_blocks" \in entered
    /\ Length(input) = 150 /\ arg = 74
    /\ ret.idx > 0 /\ ret.idx < 149
    /\ PivotFirst # input /\ v = Swap(PivotFirst, 0, ret.idx)

\* the caller calls partition_equal(v, arg, compare)
EqualInput == entry = "partition_equal"

\* no element of the caller's slice is smaller than v[arg], under an order
PivotIsMinimum ==
    /\ cmpKind \in OrderKinds
    /\ \A i \in DOMAIN input : ~LessThan(input[i], input[arg])

\* a call of partition_equal has not returned
EqualActive ==
    /\ status = "running"
    /\ \E i \in 1..Len(stack) : stack[i].fn = "partition_equal"

\* C26: partition_equal on a slice with no element smaller than the pivot,
\* under an order, returns k, 1 <= k <= n, with every element of v[..k] Equal
\* to the pivot, every element of v[k..] Greater than it and v holding the
\* elements of the input.  Under any comparator the call ends and
\* 1 <= k <= n.
EqualContract ==
    /\ []((EqualInput /\ status = "done")
            => /\ 1 <= ret.idx /\ ret.idx <= Length(input)
               /\ PivotIsMinimum
                    => /\ \A i \in DOMAIN v :
                            CompareFn(cmpKind, 0, v[i], input[arg]) =
                                (IF i < ret.idx THEN "Equal" ELSE "Greater")
                       /\ v[0] = input[arg]
                       /\ SameElements(v, input))
    /\ []((/\ status = "running" /\ req = None /\ stack # <<>>
           /\ Top.fn = "quicksort" /\ Top.pc = "equal")
            => (1 <= ret.idx /\ ret.idx <= Top.len))
    /\ EqualActive ~> ~EqualActive

EqualContractWitness ==
    /\ EqualInput /\ status = "done" /\ PivotIsMinimum
    /\ Length(input) = 40 /\ arg = 20
    /\ ret.idx > 3 /\ ret.idx < 37 /\ v # input

\* the caller calls choose_pivot(v, compare)
PivotInput == entry = "choose_pivot"

\* choose_pivot is comparing two elements of its slice
Sampling == status = "running" /\ req # None /\ stack # <<>> /\ Top.fn = "choose_pivot"

\* choose_pivot on a slice of length n samples a, b, c and returns b: what it
\* compares lies on those positions (next to them too, from
\* MIN_MEDIAN_OF_MEDIANS elements on) and what it returns is b
SamplesAre(a, b, c, n) ==
    /\ (Sampling /\ Top.len = n)
         => LET x == req.x - Top.base
                y == req.y - Top.base
            IN  IF n >= MIN_MEDIAN_OF_MEDIANS
                THEN \A i \in {x, y} : \E s \in {a, b, c} : Abs(i - s) <= 1
                ELSE <<x, y>> \in {<<a, b>>, <<b, c>>}
    /\ (PivotInput /\ status = "done" /\ Length(input) = n) => ret.idx = b

\* C27: choose_pivot samples the positions floor(n/4), 2 * floor(n/4) and
\* 3 * floor(n/4) and returns 2 * floor(n/4), for every slice length n.
PivotSamples ==
    \A n \in 0..300 : SamplesAre((n \div 4) * 1, (n \div 4) * 2, (n \div 4) * 3, n)

PivotSamplesWitness ==
    /\ PivotInput /\ status = "done"
    /\ Length(input) = 150 /\ ret.idx = 74 /\ calls = 3

\* C27 as stated: the positions are floor(n/4), floor(n/2) and floor(3n/4) and
\* the index returned is floor(n/2)
PivotSamplesAsStated ==
    \A n \in 0..300 : SamplesAre(n \div 4, n \div 2, (3 * n) \div 4, n)

\* x is not after y in the caller's order
NotAfter(x, y) == CompareFn(cmpKind, 0, x, y) # "Greater"

\* the indices choose_pivot may touch in a slice of length n
Touched(n) ==
    LET a == (n \div 4) * 1
        b == (n \div 4) * 2
        c == (n \div 4) * 3
    IN  IF n >= MIN_MEDIAN_OF_MEDIANS
        THEN {a - 1, a, b - 1, b, b + 1, c - 1, c, c + 1}
        ELSE {a, b, c}

\* C28: choose_pivot on a slice of n >= 4 elements under an order returns with
\* v[a] <= v[b] <= v[c] for the sampled positions a < b < c, b the index
\* returned, and with v holding the elements of the input; every index it
\* touches, the neighbours of a, b, c from MIN_MEDIAN_OF_MEDIANS elements on
\* included, lies in [0, n).
PivotMedian ==
    /\ (PivotInput /\ cmpKind \in OrderKinds /\ status = "done" /\ Length(input) >= 4)
         => LET q == Length(input) \div 4
            IN  /\ q < 2 * q /\ 2 * q < 3 * q /\ 3 * q < Length(input)
                /\ ret.idx = 2 * q
                /\ NotAfter(v[q], v[2 * q])
                /\ NotAfter(v[2 * q], v[3 * q])
                /\ SameElements(v, input)
    /\ Sampling
         => /\ Top.len >= 4
            /\ \A i \in {req.x - Top.base, req.y - Top.base} :
                    i \in Touched(Top.len) /\ 0 <= i /\ i < Top.len

PivotMedianWitness ==
    /\ PivotInput /\ cmpKind \in OrderKinds /\ status = "done"
    /\ Length(input) = 300 /\ calls = 12 /\ v # input
    /\ CompareFn(cmpKind, 0, input[150], input[75]) = "Less"

\* a sort under an order is running
OrderedSort == entry \in SortEntries /\ cmpKind \in OrderKinds

\* the call of quicksort at depth k of the stack has a predecessor
HasPred(k) == stack[k].fn = "quicksort" /\ stack[k].pred # NoPred

\* the elements the call at depth k skipped: those between its predecessor
\* and its slice
Skipped(k) == (stack[k].pred + 1) .. (stack[k].base - 1)

Quicksorts == {k \in 1..Len(stack) : stack[k].fn = "quicksort"}

\* the call at depth k has called quicksort, which has not returned
Nested(k) == k \in Quicksorts /\ k + 1 \in Quicksorts

\* the nested call is the one made after partition_equal
AfterEqual(k) ==
    stack[k].pc = "tail" /\ stack[k + 1].base = stack[k].base + stack[k].mid

\* pivot index mid leaves a part of a slice of len elements shorter than
\* floor(len / 8)
Short(mid, len) == mid < len \div 8 \/ len - mid - 1 < len \div 8

\* the calls of the chain down to depth k whose partition was imbalanced
ImbalancedUpTo(k) ==
    {j \in 1..k : Nested(j) /\ ~AfterEqual(j) /\ Short(stack[j].mid, stack[j].len)}

\* what a call of quicksort beginning with a slice of len elements and limit
\* lim, for elements of size bytes, calls first
FirstCall(len, lim, size) ==
    IF len <= (IF size <= 16 THEN 32 ELSE 16) THEN "insertion_sort"
    ELSE IF lim = 0 THEN "heapsort"
    ELSE "choose_pivot"

====
